---- MODULE Spec2Model ----
(***************************************************************************)
(* Column-level decoding pipeline of parquet-rs: ColumnReaderImpl          *)
(* (src/column/reader.rs) over the value decoders of                       *)
(* src/encodings/decoding.rs, for an INT32 column.                         *)
(***************************************************************************)
EXTENDS Integers, Sequences, FiniteSets, TLC

(***************************************************************************)
(* Bounds of the model.                                                    *)
(***************************************************************************)
\* data pages the page source delivers before it is depleted
MaxPages == 2
\* dictionary pages the page source delivers
MaxDictPages == 2
\* levels declared by one data page
MaxLevels == 2
\* largest batch_size a caller passes
MaxBatch == 3
\* largest max_def_level / max_rep_level of a column descriptor
MaxDefLevel == 1
MaxRepLevel == 1
\* calls a caller still makes once read_batch has returned an error
MaxRetries == 1
\* the length of a slice a caller passes that is shorter than the tester's
ShortLen == 1
\* values bound to a decoder by set_data, and values its data encode beyond them
MaxValues == 3
MaxExtra == 1
\* set_data calls on one decoder
MaxBinds == 2
\* get calls that return an error before the caller gives up
MaxFailedGets == 2
\* the values of the vectors written with 8 values to a mini block and two
\* mini blocks to a block
LongList == 18
\* (block size, mini blocks) of the stream headers other than the writer's
\* (128, 4), and the lengths streams are cut to
OtherHeaders == {<< 20, 4 >>, << 24, 2 >>, << 8, 0 >>}
CutLengths == {3, 8, 12}

(***************************************************************************)
(* Option<T>: None is the empty sequence, Some(x) the one-element one.     *)
(***************************************************************************)
None == << >>
Some(x) == << x >>
IsSome(o) == Len(o) > 0
Unwrap(o) == o[1]

Min(a, b) == IF a <= b THEN a ELSE b
Max(a, b) == IF a >= b THEN a ELSE b

RECURSIVE SumSeq(_)
SumSeq(s) == IF Len(s) = 0 THEN 0 ELSE Head(s) + SumSeq(Tail(s))

RECURSIVE Flatten(_)
Flatten(ss) == IF Len(ss) = 0 THEN << >> ELSE Head(ss) \o Flatten(Tail(ss))

(***************************************************************************)
(* Byte buffers (ByteBufferPtr): an immutable byte range with sub-ranging. *)
(***************************************************************************)
start_from(buf, start) == SubSeq(buf, start + 1, Len(buf))
range(buf, start, len) == SubSeq(buf, start + 1, start + len)

\* little-endian two's-complement bytes of an integer (\div floors, % is
\* non-negative), and an unsigned little-endian integer read back
\* (read_num_bytes!)
ToLE(v, n) == [i \in 1..n |-> (v \div (256 ^ (i - 1))) % 256]
read_num_bytes(bytes) == SumSeq([i \in 1..Len(bytes) |-> bytes[i] * (256 ^ (i - 1))])

\* mem::size_of::<i32>(): the width of one PLAIN value of the column
SizeOfT == 4
\* four little-endian bytes read as an i32 (two's complement)
FromLE_i32(bytes) ==
  bytes[1] + bytes[2] * 256 + bytes[3] * 65536
    + (IF bytes[4] >= 128 THEN bytes[4] - 256 ELSE bytes[4]) * 16777216

\* ceil(a / b)
CeilDiv(a, b) == (a + b - 1) \div b

\* ceil(log2(max_level + 1)): the bit width of a level stream
RECURSIVE NumRequiredBits(_)
NumRequiredBits(x) == IF x = 0 THEN 0 ELSE 1 + NumRequiredBits(x \div 2)

(***************************************************************************)
(* Fixed-width integers (u32, i32, u64, i64) as their little-endian bytes, *)
(* so that 64-bit arithmetic wraps where the machine's does.               *)
(***************************************************************************)
\* a + b + c over bytes of equal length: the sum's bytes, then the carry out
RECURSIVE LimbAdd(_, _, _)
LimbAdd(a, b, c) ==
  IF Len(a) = 0 THEN << c >>
  ELSE LET t == a[1] + b[1] + c
       IN << t % 256 >> \o LimbAdd(Tail(a), Tail(b), t \div 256)

\* a * m + c for a byte m: the product's bytes, then the carry out
RECURSIVE LimbMulByte(_, _, _)
LimbMulByte(a, m, c) ==
  IF Len(a) = 0 THEN << c >>
  ELSE LET t == a[1] * m + c
       IN << t % 256 >> \o LimbMulByte(Tail(a), m, t \div 256)

\* all bytes zero
IsZero(a) == \A i \in 1..Len(a) : a[i] = 0

\* the one's complement
Complement(a) == [i \in 1..Len(a) |-> 255 - a[i]]

\* the n low bytes
Low(a, n) == SubSeq(a, 1, n)

\* an unsigned value widened to n bytes (`as u64`), and a signed one (`as i64`)
ZeroExtend(a, n) == [i \in 1..n |-> IF i <= Len(a) THEN a[i] ELSE 0]
SignExtend(a, n) ==
  [i \in 1..n |-> IF i <= Len(a) THEN a[i] ELSE IF a[Len(a)] >= 128 THEN 255 ELSE 0]

\* wrapping_add, wrapping_sub, and whether the unsigned operation overflows
WrappingAdd(a, b) == Low(LimbAdd(a, b, 0), Len(a))
AddOverflows(a, b) == LimbAdd(a, b, 0)[Len(a) + 1] # 0
WrappingSub(a, b) == Low(LimbAdd(a, Complement(b), 1), Len(a))
SubOverflows(a, b) == LimbAdd(a, Complement(b), 1)[Len(a) + 1] = 0

\* the full product of a and b, Len(a) + Len(b) bytes
RECURSIVE LimbMul(_, _)
LimbMul(a, b) ==
  IF Len(b) = 0 THEN [i \in 1..Len(a) |-> 0]
  ELSE LET low == LimbMulByte(a, b[1], 0)
           high == << 0 >> \o LimbMul(a, Tail(b))
       IN Low(LimbAdd(low \o [i \in 1..(Len(b) - 1) |-> 0], high, 0), Len(a) + Len(b))

WrappingMul(a, b) == Low(LimbMul(a, b), Len(a))
MulOverflows(a, b) == ~IsZero(SubSeq(LimbMul(a, b), Len(a) + 1, Len(a) + Len(b)))

\* a / d for a divisor below 2^23: [quot, rem], from the top byte down
RECURSIVE LimbDivRem(_, _)
LimbDivRem(a, d) ==
  IF Len(a) = 0 THEN [quot |-> << >>, rem |-> 0]
  ELSE LET high == LimbDivRem(SubSeq(a, 2, Len(a)), d)
           t == high.rem * 256 + a[1]
       IN [quot |-> << t \div d >> \o high.quot, rem |-> t % d]

LimbDiv(a, d) == LimbDivRem(a, d).quot

\* unsigned a < b, from the top byte down
RECURSIVE LimbLess(_, _)
LimbLess(a, b) ==
  IF Len(a) = 0 THEN FALSE
  ELSE IF a[Len(a)] # b[Len(b)] THEN a[Len(a)] < b[Len(b)]
  ELSE LimbLess(SubSeq(a, 1, Len(a) - 1), SubSeq(b, 1, Len(b) - 1))

\* a non-negative integer below 2^31 as a u64
U64(n) == ZeroExtend(ToLE(n, 4), 8)

(***************************************************************************)
(* RLE / bit-packed hybrid decoder (RleDecoder over a BitReader).          *)
(* pos is the bit reader's cursor in bits; a run header is a VLQ whose LSB *)
(* selects a bit-packed run of (header >> 1) groups of 8 values or an RLE  *)
(* run of (header >> 1) repetitions of one value of ceil(W/8) bytes.       *)
(***************************************************************************)
RleDecoder_new(bit_width) ==
  [bit_width |-> bit_width, data |-> << >>, pos |-> 0,
   rle_left |-> 0, bit_packed_left |-> 0, current_value |-> 0]

RleDecoder_set_data(d, data) ==
  [d EXCEPT !.data = data, !.pos = 0, !.rle_left = 0, !.bit_packed_left = 0,
            !.current_value = 0]

\* bit p (0-based, LSB first) of a byte buffer
BitAt(data, p) == (data[(p \div 8) + 1] \div (2 ^ (p % 8))) % 2

\* BitReader::get_value: w bits at bit position pos, little-endian bit order
get_value(data, pos, w) == SumSeq([k \in 1..w |-> BitAt(data, pos + k - 1) * (2 ^ (k - 1))])

\* BitReader::get_vlq_int from byte index b (0-based): [ok, value, next]
RECURSIVE get_vlq_int(_, _, _, _)
get_vlq_int(data, b, shift, acc) ==
  IF b >= Len(data) THEN [ok |-> FALSE, value |-> 0, next |-> b]
  ELSE LET byte == data[b + 1]
           v == acc + (byte % 128) * (2 ^ shift)
       IN IF byte >= 128 THEN get_vlq_int(data, b + 1, shift + 7, v)
          ELSE [ok |-> TRUE, value |-> v, next |-> b + 1]

\* RleDecoder::reload: read the next run header; FALSE at the end of the data
RleDecoder_reload(d) ==
  LET b == CeilDiv(d.pos, 8)
      h == get_vlq_int(d.data, b, 0, 0)
      vw == CeilDiv(d.bit_width, 8)
  IN IF ~h.ok THEN [ok |-> FALSE, dec |-> d]
     ELSE IF h.value % 2 = 1
          THEN [ok |-> TRUE,
                dec |-> [d EXCEPT !.bit_packed_left = (h.value \div 2) * 8,
                                  !.pos = h.next * 8]]
          ELSE IF h.next + vw > Len(d.data) THEN [ok |-> FALSE, dec |-> d]
          ELSE [ok |-> TRUE,
                dec |-> [d EXCEPT !.rle_left = h.value \div 2,
                                  !.current_value = read_num_bytes(range(d.data, h.next, vw)),
                                  !.pos = (h.next + vw) * 8]]

\* RleDecoder::get_batch: up to max values; [dec, out]
RECURSIVE RleDecoder_get_batch(_, _, _)
RleDecoder_get_batch(d, max, out) ==
  IF Len(out) >= max THEN [dec |-> d, out |-> out]
  ELSE IF d.rle_left > 0
       THEN RleDecoder_get_batch([d EXCEPT !.rle_left = @ - 1], max,
                                 Append(out, d.current_value))
  ELSE IF d.bit_packed_left > 0
       THEN IF d.pos + d.bit_width > 8 * Len(d.data)
            THEN [dec |-> d, out |-> out]
            ELSE RleDecoder_get_batch(
                   [d EXCEPT !.bit_packed_left = @ - 1, !.pos = @ + d.bit_width],
                   max, Append(out, get_value(d.data, d.pos, d.bit_width)))
  ELSE LET r == RleDecoder_reload(d)
       IN IF r.ok THEN RleDecoder_get_batch(r.dec, max, out)
          ELSE [dec |-> d, out |-> out]

(***************************************************************************)
(* The encoders that produce the wire formats (used to build pages).       *)
(***************************************************************************)
\* one bit-packed run: the values padded with zeros to a multiple of 8
RleEncodePacked(vals, w) ==
  IF Len(vals) = 0 THEN << >>
  ELSE LET groups == CeilDiv(Len(vals), 8)
           padded == [i \in 1..(8 * groups) |-> IF i <= Len(vals) THEN vals[i] ELSE 0]
           bit(p) == (padded[(p \div w) + 1] \div (2 ^ (p % w))) % 2
           byte(j) == SumSeq([b \in 1..8 |-> bit(8 * j + b - 1) * (2 ^ (b - 1))])
       IN << groups * 2 + 1 >> \o [j \in 1..(groups * w) |-> byte(j - 1)]

\* one RLE run per maximal run of equal values
RECURSIVE RleEncodeRuns(_, _)
RleEncodeRuns(vals, w) ==
  IF Len(vals) = 0 THEN << >>
  ELSE LET same == {n \in 1..Len(vals) : \A i \in 1..n : vals[i] = vals[1]}
           n == CHOOSE m \in same : \A k \in same : k <= m
       IN << n * 2 >> \o ToLE(vals[1], CeilDiv(w, 8))
            \o RleEncodeRuns(SubSeq(vals, n + 1, Len(vals)), w)

RleEncode(vals, w, packed) ==
  IF packed THEN RleEncodePacked(vals, w) ELSE RleEncodeRuns(vals, w)

\* one value in PLAIN encoding: the three words of an Int96, the bytes of a
\* ByteArray after their number in 4 bytes, the bytes alone where the length
\* is fixed, an i32 as 4 little-endian bytes
PlainEncodeValue(T, v) ==
  IF T = "INT96" THEN Flatten(v)
  ELSE IF T = "BYTE_ARRAY" THEN ToLE(Len(v), 4) \o v
  ELSE IF T = "FIXED_LEN_BYTE_ARRAY" THEN v
  ELSE ToLE(v, SizeOfT)

\* PLAIN encoding: the values one after the other, booleans as one bit
\* each, LSB first, the last byte padded with zero bits
PlainEncode(T, vals) ==
  IF T = "BOOLEAN"
  THEN [j \in 1..CeilDiv(Len(vals), 8) |->
          SumSeq([b \in 1..8 |->
                    (IF 8 * (j - 1) + b <= Len(vals) THEN vals[8 * (j - 1) + b] ELSE 0)
                      * (2 ^ (b - 1))])]
  ELSE Flatten([i \in 1..Len(vals) |-> PlainEncodeValue(T, vals[i])])

(***************************************************************************)
(* Results of fallible operations: status is "Ok", "Err" (a ParquetError   *)
(* returned to the caller) or "Panic" (an assertion, expect() or index     *)
(* failure that aborts the call).                                          *)
(***************************************************************************)
ErrDuplicateDictionary == "Column cannot have more than one dictionary"
ErrInvalidDictEncoding == "Invalid/Unsupported encoding type for dictionary"
ErrUnsupportedEncoding == "Unsupported encoding"
ErrCannotInitialize == "Cannot initialize this encoding through this function"
ErrNotSupported(e) == "Encoding " \o e \o " is not supported"
ErrEof == "Not enough bytes to decode"

(***************************************************************************)
(* PlainDecoder<Int32Type> (the default, fixed-width implementation).      *)
(***************************************************************************)
PlainDecoder_new ==
  [kind |-> "PlainDecoder", num_values |-> 0, start |-> 0, data |-> None]

\* (variant: the decoder goes on where it was in the buffer before)
PlainDecoder_set_data_resumed(d, data, num_values) ==
  [d EXCEPT !.num_values = num_values, !.data = Some(data)]

PlainDecoder_set_data(d, data, num_values) ==
  [d EXCEPT !.num_values = num_values, !.start = 0, !.data = Some(data)]

\* get into a buffer of buflen entries: [status, msg, dec, out]
PlainDecoder_get(d, buflen) ==
  IF ~IsSome(d.data)
  THEN [status |-> "Panic", msg |-> "assert data.is_some()", dec |-> d, out |-> << >>]
  ELSE LET data == Unwrap(d.data)
           num_values == Min(buflen, d.num_values)
           bytes_left == Len(data) - d.start
           bytes_to_decode == SizeOfT * num_values
       IN IF bytes_left < bytes_to_decode
          THEN [status |-> "Err", msg |-> ErrEof, dec |-> d, out |-> << >>]
          ELSE [status |-> "Ok", msg |-> "",
                dec |-> [d EXCEPT !.start = @ + bytes_to_decode,
                                  !.num_values = @ - num_values],
                out |-> [i \in 1..num_values |->
                           FromLE_i32(range(data, d.start + SizeOfT * (i - 1), SizeOfT))]]

(***************************************************************************)
(* PlainDecoder<BoolType>: the values are read bit by bit. num_values is a *)
(* usize: a negative number here stands for the value the subtraction      *)
(* wraps to where the build does not check overflow (2^64 + num_values).   *)
(***************************************************************************)
\* BitReader::get_batch: as many w-bit values as the buffer takes and as the
\* bytes still hold from bit position pos on
BitReader_get_batch(data, pos, buflen, w) ==
  LET n == Min(buflen, (8 * Len(data) - pos) \div w)
  IN [i \in 1..n |-> get_value(data, pos + (i - 1) * w, w)]

PlainBoolDecoder_new ==
  [kind |-> "PlainDecoder<BoolType>", num_values |-> 0, bit_reader |-> None]

PlainBoolDecoder_set_data(d, data, num_values) ==
  [d EXCEPT !.num_values = num_values,
            !.bit_reader = Some([data |-> data, pos |-> 0])]

\* get into a buffer of buflen entries: [status, msg, dec, out];
\* overflow_checks says whether the build checks the usize subtraction
PlainBoolDecoder_get(d, buflen, overflow_checks) ==
  IF ~IsSome(d.bit_reader)
  THEN [status |-> "Panic", msg |-> "assert bit_reader.is_some()", dec |-> d, out |-> << >>]
  ELSE LET bit_reader == Unwrap(d.bit_reader)
           out == BitReader_get_batch(bit_reader.data, bit_reader.pos, buflen, 1)
           values_read == Len(out)
           advanced == [d EXCEPT !.bit_reader =
                                    Some([bit_reader EXCEPT !.pos = @ + values_read])]
       IN IF values_read > d.num_values /\ overflow_checks
          THEN [status |-> "Panic", msg |-> "attempt to subtract with overflow",
                dec |-> advanced, out |-> out]
          ELSE [status |-> "Ok", msg |-> "",
                dec |-> [advanced EXCEPT !.num_values = @ - values_read],
                out |-> out]

(***************************************************************************)
(* PlainDecoder<Int96Type>, PlainDecoder<ByteArrayType> and                *)
(* PlainDecoder<FixedLenByteArrayType>: set_data is the default one, get   *)
(* is their own. An Int96 is its three u32 words, each of 4 little-endian  *)
(* bytes; a ByteArray is its bytes.                                        *)
(***************************************************************************)
\* the length declared for a FIXED_LEN_BYTE_ARRAY column
TypeLength == 4

\* descr.type_length() of a column of physical type T
type_length(T) == IF T = "FIXED_LEN_BYTE_ARRAY" THEN TypeLength ELSE -1

PlainInt96Decoder_new ==
  [kind |-> "PlainDecoder<Int96Type>", num_values |-> 0, start |-> 0, data |-> None]

PlainByteArrayDecoder_new ==
  [kind |-> "PlainDecoder<ByteArrayType>", num_values |-> 0, start |-> 0, data |-> None]

PlainFixedLenByteArrayDecoder_new(len) ==
  [kind |-> "PlainDecoder<FixedLenByteArrayType>", type_length |-> len,
   num_values |-> 0, start |-> 0, data |-> None]

\* get into a buffer of buflen entries: [status, msg, dec, out]
PlainInt96Decoder_get(d, buflen) ==
  IF ~IsSome(d.data)
  THEN [status |-> "Panic", msg |-> "assert data.is_some()", dec |-> d, out |-> << >>]
  ELSE LET data == Unwrap(d.data)
           num_values == Min(buflen, d.num_values)
           bytes_left == Len(data) - d.start
           bytes_to_decode == 12 * num_values
       IN IF bytes_left < bytes_to_decode
          THEN [status |-> "Err", msg |-> ErrEof, dec |-> d, out |-> << >>]
          ELSE [status |-> "Ok", msg |-> "",
                dec |-> [d EXCEPT !.start = @ + bytes_to_decode,
                                  !.num_values = @ - num_values],
                out |-> [i \in 1..num_values |->
                           [w \in 1..3 |->
                              range(data, d.start + 12 * (i - 1) + 4 * (w - 1), 4)]]]

\* the loop of get from its i-th round on: [status, msg, dec, out]; out is
\* what the rounds have put into the buffer
RECURSIVE PlainByteArrayDecoder_get_loop(_, _, _, _)
PlainByteArrayDecoder_get_loop(d, i, num_values, out) ==
  LET data == Unwrap(d.data)
      len == read_num_bytes(range(data, d.start, 4))
      e == [d EXCEPT !.start = @ + 4]
  IN IF i >= num_values
     THEN [status |-> "Ok", msg |-> "", dec |-> [d EXCEPT !.num_values = @ - num_values],
           out |-> out]
     ELSE IF Len(start_from(data, d.start)) < 4
     THEN [status |-> "Panic", msg |-> "assertion failed: $size <= $src.len()",
           dec |-> d, out |-> out]
     ELSE IF Len(data) < e.start + len
     THEN [status |-> "Err", msg |-> ErrEof, dec |-> e, out |-> out]
     ELSE PlainByteArrayDecoder_get_loop([e EXCEPT !.start = @ + len], i + 1, num_values,
                                         Append(out, range(data, e.start, len)))

PlainByteArrayDecoder_get(d, buflen) ==
  IF ~IsSome(d.data)
  THEN [status |-> "Panic", msg |-> "assert data.is_some()", dec |-> d, out |-> << >>]
  ELSE PlainByteArrayDecoder_get_loop(d, 0, Min(buflen, d.num_values), << >>)

RECURSIVE PlainFixedLenByteArrayDecoder_get_loop(_, _, _, _)
PlainFixedLenByteArrayDecoder_get_loop(d, i, num_values, out) ==
  LET data == Unwrap(d.data)
  IN IF i >= num_values
     THEN [status |-> "Ok", msg |-> "", dec |-> [d EXCEPT !.num_values = @ - num_values],
           out |-> out]
     ELSE IF Len(data) < d.start + d.type_length
     THEN [status |-> "Err", msg |-> ErrEof, dec |-> d, out |-> out]
     ELSE PlainFixedLenByteArrayDecoder_get_loop(
            [d EXCEPT !.start = @ + d.type_length], i + 1, num_values,
            Append(out, range(data, d.start, d.type_length)))

PlainFixedLenByteArrayDecoder_get(d, buflen) ==
  IF ~IsSome(d.data)
  THEN [status |-> "Panic", msg |-> "assert data.is_some()", dec |-> d, out |-> << >>]
  ELSE IF ~(d.type_length > 0)
  THEN [status |-> "Panic", msg |-> "assert type_length > 0", dec |-> d, out |-> << >>]
  ELSE PlainFixedLenByteArrayDecoder_get_loop(d, 0, Min(buflen, d.num_values), << >>)

\* the PlainDecoder<T> there are
PlainKinds ==
  {"PlainDecoder", "PlainDecoder<BoolType>", "PlainDecoder<Int96Type>",
   "PlainDecoder<ByteArrayType>", "PlainDecoder<FixedLenByteArrayType>"}

\* PlainDecoder::<T>::new for the physical type T of the column
PlainDecoder_new_for(T) ==
  IF T = "BOOLEAN" THEN PlainBoolDecoder_new
  ELSE IF T = "INT96" THEN PlainInt96Decoder_new
  ELSE IF T = "BYTE_ARRAY" THEN PlainByteArrayDecoder_new
  ELSE IF T = "FIXED_LEN_BYTE_ARRAY" THEN PlainFixedLenByteArrayDecoder_new(type_length(T))
  ELSE PlainDecoder_new

\* set_data and get of a PlainDecoder<T>, by the implementation T selects
Plain_set_data(d, data, num_values) ==
  IF d.kind = "PlainDecoder<BoolType>" THEN PlainBoolDecoder_set_data(d, data, num_values)
  ELSE PlainDecoder_set_data(d, data, num_values)

Plain_get(d, buflen, overflow_checks) ==
  IF d.kind = "PlainDecoder<BoolType>" THEN PlainBoolDecoder_get(d, buflen, overflow_checks)
  ELSE IF d.kind = "PlainDecoder<Int96Type>" THEN PlainInt96Decoder_get(d, buflen)
  ELSE IF d.kind = "PlainDecoder<ByteArrayType>" THEN PlainByteArrayDecoder_get(d, buflen)
  ELSE IF d.kind = "PlainDecoder<FixedLenByteArrayType>"
  THEN PlainFixedLenByteArrayDecoder_get(d, buflen)
  ELSE PlainDecoder_get(d, buflen)

(***************************************************************************)
(* DictDecoder.                                                            *)
(***************************************************************************)
DictDecoder_new ==
  [kind |-> "DictDecoder", dictionary |-> << >>, has_dictionary |-> FALSE,
   rle_decoder |-> None, num_values |-> 0]

\* set_dict: decode the whole dictionary with the given (plain) decoder
DictDecoder_set_dict(d, decoder) ==
  LET num_values == decoder.num_values
      r == Plain_get(decoder, num_values, TRUE)
  IN IF r.status # "Ok" THEN [status |-> r.status, msg |-> r.msg, dec |-> d]
     ELSE [status |-> "Ok", msg |-> "",
           dec |-> [d EXCEPT !.dictionary =
                                [i \in 1..num_values |->
                                   IF i <= Len(r.out) THEN r.out[i] ELSE 0],
                             !.has_dictionary = TRUE]]

\* set_data: the first byte is the bit width, the rest the index stream
DictDecoder_set_data(d, data, num_values) ==
  IF Len(data) = 0
  THEN [status |-> "Panic", msg |-> "index out of bounds", dec |-> d]
  ELSE [status |-> "Ok", msg |-> "",
        dec |-> [d EXCEPT !.num_values = num_values,
                          !.rle_decoder =
                             Some(RleDecoder_set_data(RleDecoder_new(data[1]),
                                                      start_from(data, 1)))]]

\* RleDecoder::get_batch_with_dict: indices resolved against dict
RleDecoder_get_batch_with_dict(rle, dict, max_values) ==
  LET r == RleDecoder_get_batch(rle, max_values, << >>)
  IN IF \E i \in 1..Len(r.out) : r.out[i] >= Len(dict)
     THEN [status |-> "Panic", msg |-> "index out of bounds", dec |-> r.dec, out |-> << >>]
     ELSE [status |-> "Ok", msg |-> "", dec |-> r.dec,
           out |-> [i \in 1..Len(r.out) |-> dict[r.out[i] + 1]]]

\* get: num_values is the count bound by set_data; it is not decremented
DictDecoder_get(d, buflen) ==
  IF ~IsSome(d.rle_decoder)
  THEN [status |-> "Panic", msg |-> "assert rle_decoder.is_some()", dec |-> d, out |-> << >>]
  ELSE IF ~d.has_dictionary
  THEN [status |-> "Panic", msg |-> "Must call set_dict() first!", dec |-> d, out |-> << >>]
  ELSE LET num_values == Min(buflen, d.num_values)
           r == RleDecoder_get_batch_with_dict(Unwrap(d.rle_decoder), d.dictionary, num_values)
       IN [status |-> r.status, msg |-> r.msg,
           dec |-> [d EXCEPT !.rle_decoder = Some(r.dec)],
           out |-> r.out]

(***************************************************************************)
(* RleValueDecoder (RLE value encoding, BOOLEAN only): a 4-byte length     *)
(* prefix, then RLE / bit-packed hybrid data of bit width 1.               *)
(***************************************************************************)
RleValueDecoder_new ==
  [kind |-> "RleValueDecoder", values_left |-> 0, decoder |-> None]

\* set_data: [status, msg, dec]
RleValueDecoder_set_data(d, T, data, num_values) ==
  IF T # "BOOLEAN"
  THEN [status |-> "Panic", msg |-> "RleValueDecoder only supports BoolType", dec |-> d]
  ELSE LET i32_size == SizeOfT
           data_size == read_num_bytes(range(data, 0, i32_size))
       IN [status |-> "Ok", msg |-> "",
           dec |-> [d EXCEPT !.decoder =
                                Some(RleDecoder_set_data(RleDecoder_new(1),
                                                         range(data, i32_size, data_size))),
                             !.values_left = num_values]]

\* get: the RLE decoder fills the buffer; values_left is a usize (a negative
\* number stands for the value an unchecked subtraction wraps to)
RleValueDecoder_get(d, buflen, overflow_checks) ==
  IF ~IsSome(d.decoder)
  THEN [status |-> "Panic", msg |-> "RLE decoder is not initialized", dec |-> d, out |-> << >>]
  ELSE LET r == RleDecoder_get_batch(Unwrap(d.decoder), buflen, << >>)
           values_read == Len(r.out)
           advanced == [d EXCEPT !.decoder = Some(r.dec)]
       IN IF values_read > d.values_left /\ overflow_checks
          THEN [status |-> "Panic", msg |-> "attempt to subtract with overflow",
                dec |-> advanced, out |-> r.out]
          ELSE [status |-> "Ok", msg |-> "",
                dec |-> [advanced EXCEPT !.values_left = @ - values_read],
                out |-> r.out]

\* (variant: the sum saturates at the bounds of an i64 instead of wrapping)
saturating_add(a, b) ==
  LET t == WrappingAdd(a, b)
  IN IF a[8] < 128 /\ b[8] < 128 /\ t[8] >= 128
     THEN << 255, 255, 255, 255, 255, 255, 255, 127 >>
     ELSE IF a[8] >= 128 /\ b[8] >= 128 /\ t[8] < 128
     THEN << 0, 0, 0, 0, 0, 0, 0, 128 >>
     ELSE t

\* current_value.wrapping_add(..) in DeltaBitPackDecoder::get
add_delta(a, b) == WrappingAdd(a, b)

\* (variant: the value conversion of a type that is not supported returns an
\* error)
type_mismatch_err(d, out) ==
  [status |-> "Err", msg |-> "TypeMismatch", dec |-> d, out |-> out]

\* the default get_delta / set_decoded_value: panic!(..)
unsupported_type_panic(d, out) ==
  [status |-> "Panic", msg |-> "DeltaBitPackDecoder only supports Int32Type and Int64Type",
   dec |-> d, out |-> out]

\* (variant: get and get_offset do not look at initialized)
initialized_unchecked(d) == TRUE

\* assert!(self.initialized, "Bit reader is not initialized") holds
initialized_holds(d) == d.initialized

\* (variant: a mini block size that is no multiple of 8 is an error returned)
invalid_header_err(d) ==
  [status |-> "Err", msg |-> "InvalidHeader", dec |-> d]

\* assert!(self.values_per_mini_block % 8 == 0) fails
multiple_of_8_failed(d) ==
  [status |-> "Panic", msg |-> "assertion failed: self.values_per_mini_block % 8 == 0",
   dec |-> d]

(***************************************************************************)
(* BitReader over a byte buffer, as the DELTA decoders use it: pos is the  *)
(* cursor in bits; integers read are i64 / u64 bytes. The header fields of *)
(* the streams of the model stay below 2^24, where AsUsize is exact.       *)
(***************************************************************************)
BitReader_new(data) == [data |-> data, pos |-> 0]

\* get_byte_offset: the cursor rounded up to a byte boundary
BitReader_get_byte_offset(br) == CeilDiv(br.pos, 8)

\* get_value::<T>(w) for a T of size bytes: [ok, value, br]; fails on underflow
BitReader_get_value(br, w, size) ==
  IF br.pos + w > 8 * Len(br.data) THEN [ok |-> FALSE, value |-> << >>, br |-> br]
  ELSE [ok |-> TRUE,
        value |-> [j \in 1..size |->
                     SumSeq([b \in 1..8 |->
                               IF 8 * (j - 1) + b - 1 < w
                               THEN BitAt(br.data, br.pos + 8 * (j - 1) + b - 1) * (2 ^ (b - 1))
                               ELSE 0])],
        br |-> [br EXCEPT !.pos = @ + w]]

\* get_batch::<T>(&mut batch[..n], w): as many values as n asks for and the
\* data hold; [values, br]
BitReader_get_batch_of(br, n, w, size) ==
  LET left == 8 * Len(br.data) - br.pos
      count == IF left < w * n THEN left \div w ELSE n
  IN [values |-> [i \in 1..count |->
                    BitReader_get_value([br EXCEPT !.pos = @ + (i - 1) * w], w, size).value],
      br |-> [br EXCEPT !.pos = @ + count * w]]

\* get_aligned::<u8>(1): the byte at the next byte boundary; [ok, value, br]
BitReader_get_aligned(br) ==
  LET b == CeilDiv(br.pos, 8)
  IN IF b + 1 > Len(br.data) THEN [ok |-> FALSE, value |-> 0, br |-> br]
     ELSE [ok |-> TRUE, value |-> br.data[b + 1], br |-> [br EXCEPT !.pos = 8 * (b + 1)]]

\* the 7-bit groups of a VLQ, least significant first: [ok, groups, br]
RECURSIVE BitReader_get_vlq_groups(_, _)
BitReader_get_vlq_groups(br, groups) ==
  LET r == BitReader_get_aligned(br)
  IN IF ~r.ok THEN [ok |-> FALSE, groups |-> groups, br |-> r.br]
     ELSE IF r.value >= 128
     THEN BitReader_get_vlq_groups(r.br, Append(groups, r.value % 128))
     ELSE [ok |-> TRUE, groups |-> Append(groups, r.value), br |-> r.br]

\* get_vlq_int: [ok, value, br], the value an i64
BitReader_get_vlq_int(br) ==
  LET bit(groups, k) == IF k \div 7 < Len(groups)
                        THEN (groups[(k \div 7) + 1] \div (2 ^ (k % 7))) % 2 ELSE 0
      of(r) ==
        [ok |-> r.ok,
         value |-> [j \in 1..8 |->
                      SumSeq([b \in 1..8 |-> bit(r.groups, 8 * (j - 1) + b - 1) * (2 ^ (b - 1))])],
         br |-> r.br]
  IN of(BitReader_get_vlq_groups(br, << >>))

\* get_zigzag_vlq_int: (u >> 1) ^ -(u & 1)
BitReader_get_zigzag_vlq_int(br) ==
  LET bit(u, k) == IF k < 64 THEN (u[(k \div 8) + 1] \div (2 ^ (k % 8))) % 2 ELSE 0
      half(u) == [j \in 1..8 |->
                    SumSeq([b \in 1..8 |-> bit(u, 8 * (j - 1) + b) * (2 ^ (b - 1))])]
      sign(u, h) == IF u[1] % 2 = 1 THEN Complement(h) ELSE h
      of(r) == [ok |-> r.ok, value |-> sign(r.value, half(r.value)), br |-> r.br]
  IN of(BitReader_get_vlq_int(br))

\* an i64 header field as a usize
AsUsize(a) == read_num_bytes(Low(a, 3))

(***************************************************************************)
(* DeltaBitPackDecoder<T>: values are the little-endian bytes of an i32    *)
(* (T = INT32) or i64 (T = INT64).                                         *)
(***************************************************************************)
DeltaBitPackDecoder_new(T) ==
  [kind |-> "DeltaBitPackDecoder", T |-> T,
   bit_reader |-> BitReader_new(<< >>), initialized |-> FALSE,
   num_values |-> 0, num_mini_blocks |-> 0, values_per_mini_block |-> 0,
   values_current_mini_block |-> 0, first_value |-> U64(0), first_value_read |-> FALSE,
   min_delta |-> U64(0), mini_block_idx |-> 0, delta_bit_width |-> 0,
   delta_bit_widths |-> << >>, deltas_in_mini_block |-> << >>,
   use_batch |-> (T = "INT32"), current_value |-> U64(0)]

\* (variant: the offset covers only the deltas that get has taken)
consumed_offset(d) ==
  [status |-> "Ok", msg |-> "",
   offset |-> CeilDiv(d.bit_reader.pos - d.values_current_mini_block * d.delta_bit_width, 8)]

\* get_offset: [status, msg, offset]
DeltaBitPackDecoder_get_offset(d) ==
  IF ~initialized_holds(d)
  THEN [status |-> "Panic", msg |-> "Bit reader is not initialized", offset |-> 0]
  ELSE [status |-> "Ok", msg |-> "", offset |-> BitReader_get_byte_offset(d.bit_reader)]

\* the bit widths of the mini blocks of a block: [ok, widths, br]
RECURSIVE DeltaBitPackDecoder_widths(_, _, _)
DeltaBitPackDecoder_widths(br, n, widths) ==
  IF n = 0 THEN [ok |-> TRUE, widths |-> widths, br |-> br]
  ELSE LET r == BitReader_get_aligned(br)
       IN IF ~r.ok THEN [ok |-> FALSE, widths |-> widths, br |-> r.br]
          ELSE DeltaBitPackDecoder_widths(r.br, n - 1, Append(widths, r.value))

\* (variant: the index of the mini block is carried into the new block)
carried_mini_block_idx(d) == d.mini_block_idx

\* self.mini_block_idx = 0: a block starts at its first mini block
first_mini_block_idx(d) == 0

\* init_block: [status, msg, dec]
DeltaBitPackDecoder_init_block(d) ==
  LET with_widths(d1, w) ==
        IF ~w.ok
        THEN [status |-> "Err", msg |-> "Not enough data to decode 'width'",
              dec |-> [d1 EXCEPT !.bit_reader = w.br]]
        ELSE [status |-> "Ok", msg |-> "",
              dec |-> [d1 EXCEPT !.bit_reader = w.br,
                                 !.delta_bit_widths = w.widths,
                                 !.mini_block_idx = first_mini_block_idx(d1),
                                 !.delta_bit_width = w.widths[1],
                                 !.values_current_mini_block = d.values_per_mini_block]]
      with_min_delta(m) ==
        IF ~m.ok
        THEN [status |-> "Err", msg |-> "Not enough data to decode 'min_delta'",
              dec |-> [d EXCEPT !.bit_reader = m.br]]
        ELSE with_widths([d EXCEPT !.bit_reader = m.br, !.min_delta = m.value],
                         DeltaBitPackDecoder_widths(m.br, d.num_mini_blocks, << >>))
  IN with_min_delta(BitReader_get_zigzag_vlq_int(d.bit_reader))

\* the deltas read one by one (T::T of 8 bytes): [ok, values, br]
RECURSIVE DeltaBitPackDecoder_deltas(_, _, _, _)
DeltaBitPackDecoder_deltas(br, n, w, values) ==
  IF n = 0 THEN [ok |-> TRUE, values |-> values, br |-> br]
  ELSE LET r == BitReader_get_value(br, w, 8)
       IN IF ~r.ok THEN [ok |-> FALSE, values |-> values, br |-> r.br]
          ELSE DeltaBitPackDecoder_deltas(r.br, n - 1, w, Append(values, r.value))

\* load_deltas_in_mini_block: the whole mini block at once; [status, msg, dec]
DeltaBitPackDecoder_load_deltas_in_mini_block(d) ==
  LET loaded(r) == [d EXCEPT !.bit_reader = r.br, !.deltas_in_mini_block = r.values]
      batch(r) ==
        IF Len(r.values) # d.values_current_mini_block
        THEN [status |-> "Panic",
              msg |-> "assertion failed: loaded == self.values_current_mini_block",
              dec |-> loaded(r)]
        ELSE [status |-> "Ok", msg |-> "", dec |-> loaded(r)]
      one_by_one(r) ==
        IF ~r.ok
        THEN [status |-> "Err", msg |-> "Not enough data to decode 'delta'", dec |-> loaded(r)]
        ELSE [status |-> "Ok", msg |-> "", dec |-> loaded(r)]
  IN IF d.use_batch
     THEN batch(BitReader_get_batch_of(d.bit_reader, d.values_current_mini_block,
                                       d.delta_bit_width, 4))
     ELSE one_by_one(DeltaBitPackDecoder_deltas(d.bit_reader, d.values_current_mini_block,
                                                d.delta_bit_width, << >>))

\* set_data; the num_values argument is not used: [status, msg, dec]
DeltaBitPackDecoder_set_data(d, data) ==
  LET checked(d3, values_per_mini_block) ==
        IF values_per_mini_block % 8 # 0
        THEN multiple_of_8_failed([d3 EXCEPT !.values_per_mini_block = values_per_mini_block])
        ELSE [status |-> "Ok", msg |-> "",
              dec |-> [d3 EXCEPT !.values_per_mini_block = values_per_mini_block]]
      reset(d3, block_size) ==
        IF d3.num_mini_blocks = 0
        THEN [status |-> "Panic", msg |-> "attempt to divide by zero", dec |-> d3]
        ELSE checked(d3, AsUsize(block_size.value) \div d3.num_mini_blocks)
      with_first_value(d2, block_size, first_value) ==
        IF ~first_value.ok
        THEN [status |-> "Err", msg |-> "Not enough data to decode 'first_value'",
              dec |-> [d2 EXCEPT !.bit_reader = first_value.br]]
        ELSE reset([d2 EXCEPT !.bit_reader = first_value.br,
                              !.first_value = first_value.value,
                              !.first_value_read = FALSE,
                              !.mini_block_idx = 0,
                              !.delta_bit_widths = << >>,
                              !.values_current_mini_block = 0],
                   block_size)
      with_num_values(d1, block_size, num_values) ==
        IF ~num_values.ok
        THEN [status |-> "Err", msg |-> "Not enough data to decode 'num_values'",
              dec |-> [d1 EXCEPT !.bit_reader = num_values.br]]
        ELSE with_first_value([d1 EXCEPT !.num_values = AsUsize(num_values.value)],
                              block_size, BitReader_get_zigzag_vlq_int(num_values.br))
      with_num_mini_blocks(d0, block_size, num_mini_blocks) ==
        IF ~num_mini_blocks.ok
        THEN [status |-> "Err", msg |-> "Not enough data to decode 'num_mini_blocks'",
              dec |-> [d0 EXCEPT !.bit_reader = num_mini_blocks.br]]
        ELSE with_num_values([d0 EXCEPT !.num_mini_blocks = AsUsize(num_mini_blocks.value)],
                             block_size, BitReader_get_vlq_int(num_mini_blocks.br))
      with_block_size(d0, block_size) ==
        IF ~block_size.ok
        THEN [status |-> "Err", msg |-> "Not enough data to decode 'block_size'",
              dec |-> [d0 EXCEPT !.bit_reader = block_size.br]]
        ELSE with_num_mini_blocks(d0, block_size, BitReader_get_vlq_int(block_size.br))
  IN with_block_size([d EXCEPT !.bit_reader = BitReader_new(data), !.initialized = TRUE],
                     BitReader_get_vlq_int(BitReader_new(data)))

DeltaBitPackDecoder_values_left(d) == d.num_values

\* get_delta / set_decoded_value of the physical type
DeltaBitPackDecoder_get_delta(d, index) ==
  IF d.T = "INT32" THEN SignExtend(d.deltas_in_mini_block[index + 1], 8)
  ELSE d.deltas_in_mini_block[index + 1]

DeltaBitPackDecoder_decoded_value(d, value) ==
  IF d.T = "INT32" THEN Low(value, 4) ELSE value

\* self.mini_block_idx += 1; self.mini_block_idx < self.delta_bit_widths.size()
has_next_mini_block(d) == d.mini_block_idx + 1 < Len(d.delta_bit_widths)

\* the loop of get from its i-th round on: [status, msg, dec, out]
RECURSIVE DeltaBitPackDecoder_get_loop(_, _, _, _)
DeltaBitPackDecoder_get_loop(d, i, num_values, out) ==
  LET emit(e, current_value) ==
        DeltaBitPackDecoder_get_loop(
          [e EXCEPT !.current_value = current_value, !.values_current_mini_block = @ - 1],
          i + 1, num_values, Append(out, DeltaBitPackDecoder_decoded_value(e, current_value)))
      next_value(e) ==
        IF Len(e.deltas_in_mini_block) < e.values_current_mini_block
        THEN \* the index underflows: a panic on the subtraction, or on the
             \* index where the build does not check overflow
             [status |-> "Panic", msg |-> "attempt to subtract with overflow",
              dec |-> e, out |-> out]
        ELSE IF e.values_current_mini_block = 0
        THEN [status |-> "Panic", msg |-> "index out of bounds", dec |-> e, out |-> out]
        ELSE emit(e, add_delta(add_delta(e.current_value, e.min_delta),
                               DeltaBitPackDecoder_get_delta(
                                 e, Len(e.deltas_in_mini_block) - e.values_current_mini_block)))
      loaded(l) ==
        IF l.status # "Ok"
        THEN [status |-> l.status, msg |-> l.msg, dec |-> l.dec, out |-> out]
        ELSE next_value(l.dec)
      block_ready(b) ==
        IF b.status # "Ok"
        THEN [status |-> b.status, msg |-> b.msg, dec |-> b.dec, out |-> out]
        ELSE loaded(DeltaBitPackDecoder_load_deltas_in_mini_block(b.dec))
  IN IF i >= num_values
     THEN [status |-> "Ok", msg |-> "", dec |-> [d EXCEPT !.num_values = @ - num_values],
           out |-> out]
     ELSE IF d.T \notin {"INT32", "INT64"}
     THEN unsupported_type_panic(d, out)
     ELSE IF ~d.first_value_read
     THEN DeltaBitPackDecoder_get_loop(
            [d EXCEPT !.current_value = d.first_value, !.first_value_read = TRUE],
            i + 1, num_values, Append(out, DeltaBitPackDecoder_decoded_value(d, d.first_value)))
     ELSE IF d.values_current_mini_block # 0
     THEN next_value(d)
     ELSE IF has_next_mini_block(d)
     THEN block_ready([status |-> "Ok", msg |-> "",
                       dec |-> [d EXCEPT !.mini_block_idx = @ + 1,
                                         !.delta_bit_width = d.delta_bit_widths[d.mini_block_idx + 2],
                                         !.values_current_mini_block = d.values_per_mini_block]])
     ELSE block_ready(DeltaBitPackDecoder_init_block([d EXCEPT !.mini_block_idx = @ + 1]))

\* get into a buffer of buflen entries
DeltaBitPackDecoder_get(d, buflen) ==
  IF ~initialized_holds(d)
  THEN [status |-> "Panic", msg |-> "Bit reader is not initialized", dec |-> d, out |-> << >>]
  ELSE DeltaBitPackDecoder_get_loop(d, 0, Min(buflen, d.num_values), << >>)

(***************************************************************************)
(* DeltaLengthByteArrayDecoder<T>: the lengths, DELTA_BINARY_PACKED, then  *)
(* the bytes of the arrays. A value is a byte sequence.                    *)
(***************************************************************************)
DeltaLengthByteArrayDecoder_new(T) ==
  [kind |-> "DeltaLengthByteArrayDecoder", T |-> T, lengths |-> << >>,
   current_idx |-> 0, data |-> None, offset |-> 0, num_values |-> 0]

\* set_data: [status, msg, dec]
DeltaLengthByteArrayDecoder_set_data(d, data, num_values) ==
  LET resized(num_lengths) ==
        [d EXCEPT !.lengths = [i \in 1..num_lengths |->
                                 IF i <= Len(d.lengths) THEN d.lengths[i] ELSE 0]]
      with_offset(num_lengths, lengths, offset) ==
        IF offset > Len(data)
        THEN [status |-> "Panic", msg |-> "assertion failed: start <= self.len",
              dec |-> resized(num_lengths)]
        ELSE [status |-> "Ok", msg |-> "",
              dec |-> [d EXCEPT !.lengths = [i \in 1..num_lengths |-> FromLE_i32(lengths[i])],
                                !.data = Some(start_from(data, offset)),
                                !.offset = 0,
                                !.current_idx = 0,
                                !.num_values = num_lengths]]
      with_lengths(num_lengths, g) ==
        IF g.status # "Ok"
        THEN [status |-> g.status, msg |-> g.msg, dec |-> resized(num_lengths)]
        ELSE with_offset(num_lengths, g.out, DeltaBitPackDecoder_get_offset(g.dec).offset)
      with_len_decoder(s) ==
        IF s.status # "Ok" THEN [status |-> s.status, msg |-> s.msg, dec |-> d]
        ELSE with_lengths(DeltaBitPackDecoder_values_left(s.dec),
                          DeltaBitPackDecoder_get(s.dec, DeltaBitPackDecoder_values_left(s.dec)))
  IN IF d.T # "BYTE_ARRAY"
     THEN [status |-> "Err", msg |-> "DeltaLengthByteArrayDecoder only support ByteArrayType",
           dec |-> d]
     ELSE with_len_decoder(DeltaBitPackDecoder_set_data(DeltaBitPackDecoder_new("INT32"), data))

\* (variant: the offset stays at the array just returned)
keep_offset(offset, len) == offset

\* self.offset += len
advance_offset(offset, len) == offset + len

\* the loop of get from its i-th round on: [status, msg, dec, out]
RECURSIVE DeltaLengthByteArrayDecoder_get_loop(_, _, _, _)
DeltaLengthByteArrayDecoder_get_loop(d, i, num_values, out) ==
  IF i >= num_values
  THEN [status |-> "Ok", msg |-> "", dec |-> [d EXCEPT !.num_values = @ - num_values],
        out |-> out]
  ELSE LET len == d.lengths[d.current_idx + 1]
       IN IF len < 0 \/ d.offset + len > Len(Unwrap(d.data))
          THEN [status |-> "Panic", msg |-> "assertion failed: start + len <= self.len",
                dec |-> d, out |-> out]
          ELSE DeltaLengthByteArrayDecoder_get_loop(
                 [d EXCEPT !.offset = advance_offset(@, len), !.current_idx = @ + 1],
                 i + 1, num_values, Append(out, range(Unwrap(d.data), d.offset, len)))

DeltaLengthByteArrayDecoder_get(d, buflen) ==
  IF d.T # "BYTE_ARRAY"
  THEN [status |-> "Err", msg |-> "DeltaLengthByteArrayDecoder only support ByteArrayType",
        dec |-> d, out |-> << >>]
  ELSE IF ~IsSome(d.data)
  THEN [status |-> "Panic", msg |-> "assertion failed: self.data.is_some()",
        dec |-> d, out |-> << >>]
  ELSE DeltaLengthByteArrayDecoder_get_loop(d, 0, Min(buflen, d.num_values), << >>)

(***************************************************************************)
(* DeltaByteArrayDecoder<T>: the prefix lengths, DELTA_BINARY_PACKED, then *)
(* the suffixes, DELTA_LENGTH_BYTE_ARRAY.                                  *)
(***************************************************************************)
DeltaByteArrayDecoder_new(T) ==
  [kind |-> "DeltaByteArrayDecoder", T |-> T, prefix_lengths |-> << >>,
   current_idx |-> 0, suffix_decoder |-> None, previous_value |-> << >>,
   num_values |-> 0]

\* (variant: set_data leaves the last value of the page before in place)
keep_previous_value(previous_value) == previous_value

\* self.previous_value.clear()
clear_previous_value(previous_value) == << >>

\* set_data: [status, msg, dec]
DeltaByteArrayDecoder_set_data(d, data, num_values) ==
  LET resized(num_prefixes) ==
        [d EXCEPT !.prefix_lengths = [i \in 1..num_prefixes |->
                                        IF i <= Len(d.prefix_lengths) THEN d.prefix_lengths[i]
                                        ELSE 0]]
      with_suffix_decoder(read, suffix) ==
        IF suffix.status # "Ok"
        THEN [status |-> suffix.status, msg |-> suffix.msg, dec |-> read]
        ELSE [status |-> "Ok", msg |-> "",
              dec |-> [read EXCEPT !.suffix_decoder = Some(suffix.dec),
                                   !.num_values = Len(read.prefix_lengths),
                                   !.current_idx = 0,
                                   !.previous_value = clear_previous_value(@)]]
      with_offset(read, offset) ==
        IF offset > Len(data)
        THEN [status |-> "Panic", msg |-> "assertion failed: start <= self.len",
              dec |-> read]
        ELSE with_suffix_decoder(read,
                                 DeltaLengthByteArrayDecoder_set_data(
                                   DeltaLengthByteArrayDecoder_new("BYTE_ARRAY"),
                                   start_from(data, offset), num_values))
      with_prefix_lengths(num_prefixes, g) ==
        IF g.status # "Ok"
        THEN [status |-> g.status, msg |-> g.msg, dec |-> resized(num_prefixes)]
        ELSE with_offset([d EXCEPT !.prefix_lengths =
                                     [i \in 1..num_prefixes |-> FromLE_i32(g.out[i])]],
                         DeltaBitPackDecoder_get_offset(g.dec).offset)
      with_prefix_len_decoder(s) ==
        IF s.status # "Ok" THEN [status |-> s.status, msg |-> s.msg, dec |-> d]
        ELSE with_prefix_lengths(
               DeltaBitPackDecoder_values_left(s.dec),
               DeltaBitPackDecoder_get(s.dec, DeltaBitPackDecoder_values_left(s.dec)))
  IN IF d.T # "BYTE_ARRAY"
     THEN [status |-> "Err", msg |-> "DeltaByteArrayDecoder only support ByteArrayType",
           dec |-> d]
     ELSE with_prefix_len_decoder(
            DeltaBitPackDecoder_set_data(DeltaBitPackDecoder_new("INT32"), data))

\* the loop of get from its i-th round on: [status, msg, dec, out]
RECURSIVE DeltaByteArrayDecoder_get_loop(_, _, _, _)
DeltaByteArrayDecoder_get_loop(d, i, num_values, out) ==
  LET emit(d1, result) ==
        DeltaByteArrayDecoder_get_loop(
          [d1 EXCEPT !.previous_value = result, !.current_idx = @ + 1],
          i + 1, num_values, Append(out, result))
      with_suffix(d1, suffix, prefix_len) ==
        IF suffix.status # "Ok"
        THEN [status |-> suffix.status, msg |-> suffix.msg, dec |-> d1, out |-> out]
        ELSE IF Len(suffix.out) = 0
        THEN [status |-> "Panic", msg |-> "assertion failed: self.data.is_some()",
              dec |-> d1, out |-> out]
        ELSE IF prefix_len < 0 \/ prefix_len > Len(d.previous_value)
        THEN [status |-> "Panic", msg |-> "index out of range for slice",
              dec |-> d1, out |-> out]
        ELSE emit(d1, SubSeq(d.previous_value, 1, prefix_len) \o suffix.out[1])
      suffix_read(suffix) ==
        with_suffix([d EXCEPT !.suffix_decoder = Some(suffix.dec)], suffix,
                    d.prefix_lengths[d.current_idx + 1])
  IN IF i >= num_values
     THEN [status |-> "Ok", msg |-> "", dec |-> [d EXCEPT !.num_values = @ - num_values],
           out |-> out]
     ELSE suffix_read(DeltaLengthByteArrayDecoder_get(Unwrap(d.suffix_decoder), 1))

DeltaByteArrayDecoder_get(d, buflen) ==
  IF d.T # "BYTE_ARRAY"
  THEN [status |-> "Err", msg |-> "DeltaByteArrayDecoder only support ByteArrayType",
        dec |-> d, out |-> << >>]
  ELSE IF ~IsSome(d.suffix_decoder)
  THEN [status |-> "Panic", msg |-> "assertion failed: self.suffix_decoder.is_some()",
        dec |-> d, out |-> << >>]
  ELSE DeltaByteArrayDecoder_get_loop(d, 0, Min(buflen, d.num_values), << >>)

(***************************************************************************)
(* The Decoder<T> trait objects held by the decoder cache.                 *)
(***************************************************************************)
\* (variant: a decoder of the cache keeps the data of the page before)
Decoder_keep_data(d, T, data, num_values) ==
  [status |-> "Ok", msg |-> "", dec |-> d]

Decoder_set_data(d, T, data, num_values) ==
  IF d.kind \in PlainKinds
  THEN [status |-> "Ok", msg |-> "", dec |-> Plain_set_data(d, data, num_values)]
  ELSE IF d.kind = "RleValueDecoder" THEN RleValueDecoder_set_data(d, T, data, num_values)
  ELSE DictDecoder_set_data(d, data, num_values)

Decoder_get(d, buflen, overflow_checks) ==
  IF d.kind \in PlainKinds
  THEN Plain_get(d, buflen, overflow_checks)
  ELSE IF d.kind = "RleValueDecoder" THEN RleValueDecoder_get(d, buflen, overflow_checks)
  ELSE DictDecoder_get(d, buflen)

\* set_data and get of the decoders of the DELTA encodings, which the cache
\* of a reader never holds (read_new_page asks get_decoder for PLAIN only)
DeltaDecoder_set_data(d, data, num_values) ==
  IF d.kind = "DeltaBitPackDecoder" THEN DeltaBitPackDecoder_set_data(d, data)
  ELSE IF d.kind = "DeltaLengthByteArrayDecoder"
  THEN DeltaLengthByteArrayDecoder_set_data(d, data, num_values)
  ELSE DeltaByteArrayDecoder_set_data(d, data, num_values)

DeltaDecoder_get(d, buflen) ==
  IF d.kind = "DeltaBitPackDecoder" THEN DeltaBitPackDecoder_get(d, buflen)
  ELSE IF d.kind = "DeltaLengthByteArrayDecoder" THEN DeltaLengthByteArrayDecoder_get(d, buflen)
  ELSE DeltaByteArrayDecoder_get(d, buflen)

Decoder_values_left(d) ==
  IF d.kind = "RleValueDecoder" THEN d.values_left ELSE d.num_values

\* Decoder::encoding
Decoder_encoding(d) ==
  IF d.kind \in PlainKinds THEN "PLAIN"
  ELSE IF d.kind = "RleValueDecoder" THEN "RLE"
  ELSE IF d.kind = "DeltaBitPackDecoder" THEN "DELTA_BINARY_PACKED"
  ELSE IF d.kind = "DeltaLengthByteArrayDecoder" THEN "DELTA_LENGTH_BYTE_ARRAY"
  ELSE IF d.kind = "DeltaByteArrayDecoder" THEN "DELTA_BYTE_ARRAY"
  ELSE "RLE_DICTIONARY"

\* (variant: every encoding is given a plain decoder)
get_plain_decoder(T, encoding) ==
  [status |-> "Ok", msg |-> "", err |-> "", dec |-> PlainDecoder_new_for(T)]

\* get_decoder::<T>: [status, msg, err, dec], err the kind of the error
\* (general_err!, nyi_err!) and dec of no meaning where status is "Err"
get_decoder(T, encoding) ==
  IF encoding = "PLAIN"
  THEN [status |-> "Ok", msg |-> "", err |-> "", dec |-> PlainDecoder_new_for(T)]
  ELSE IF encoding \in {"RLE_DICTIONARY", "PLAIN_DICTIONARY"}
  THEN [status |-> "Err", msg |-> ErrCannotInitialize, err |-> "General",
        dec |-> PlainDecoder_new]
  ELSE IF encoding = "RLE"
  THEN [status |-> "Ok", msg |-> "", err |-> "", dec |-> RleValueDecoder_new]
  ELSE IF encoding = "DELTA_BINARY_PACKED"
  THEN [status |-> "Ok", msg |-> "", err |-> "", dec |-> DeltaBitPackDecoder_new(T)]
  ELSE IF encoding = "DELTA_LENGTH_BYTE_ARRAY"
  THEN [status |-> "Ok", msg |-> "", err |-> "", dec |-> DeltaLengthByteArrayDecoder_new(T)]
  ELSE IF encoding = "DELTA_BYTE_ARRAY"
  THEN [status |-> "Ok", msg |-> "", err |-> "", dec |-> DeltaByteArrayDecoder_new(T)]
  ELSE [status |-> "Err", msg |-> ErrNotSupported(encoding), err |-> "NYI",
        dec |-> PlainDecoder_new]

(***************************************************************************)
(* LevelDecoder (RLE level encoding): a 4-byte little-endian length L,     *)
(* then L bytes of RLE / bit-packed hybrid data.                           *)
(***************************************************************************)
LevelDecoder_new(encoding, max_level) ==
  [encoding |-> encoding, rle |-> RleDecoder_new(NumRequiredBits(max_level))]

\* (variant: the bytes consumed do not count the length prefix)
LevelDecoder_set_data_payload(d, data) ==
  LET i32_size == SizeOfT
      data_size == read_num_bytes(range(data, 0, i32_size))
  IN [dec |-> [d EXCEPT !.rle = RleDecoder_set_data(@, range(data, i32_size, data_size))],
      total_bytes |-> data_size]

\* set_data: binds the payload and returns the bytes consumed: [dec, total_bytes]
LevelDecoder_set_data(d, data) ==
  LET i32_size == SizeOfT
      data_size == read_num_bytes(range(data, 0, i32_size))
  IN [dec |-> [d EXCEPT !.rle = RleDecoder_set_data(@, range(data, i32_size, data_size))],
      total_bytes |-> i32_size + data_size]

\* get into a buffer of buflen entries: [dec, out]
LevelDecoder_get(d, buflen) ==
  LET r == RleDecoder_get_batch(d.rle, buflen, << >>)
  IN [dec |-> [d EXCEPT !.rle = r.dec], out |-> r.out]

(***************************************************************************)
(* State.                                                                  *)
(***************************************************************************)
VARIABLES
  \* ColumnReaderImpl
  descr,                \* [max_def_level, max_rep_level]
  def_level_decoder,    \* Option<LevelDecoder>
  rep_level_decoder,    \* Option<LevelDecoder>
  page_reader,          \* the page source: [delivered, depleted, dict_pages, values]
  current_encoding,     \* Option<Encoding>
  num_buffered_values,
  num_decoded_values,
  decoders,             \* the decoder cache: Encoding -> Option<decoder>
  \* the read_batch call in progress: its arguments and locals
  pc,                   \* "idle" | "loop" | "read_new_page" | "body" | "panicked"
  batch_size,
  def_levels,           \* Option<&mut [i16]>: actual_def_levels[curr_levels_read..]
  rep_levels,           \* Option<&mut [i16]>: actual_rep_levels[curr_levels_read..]
  values,               \* &mut [T::T]: actual_values[curr_values_read..]
  values_read, levels_read,
  call,                 \* what the call in progress has decoded so far
  ret,                  \* the result of the last finished call
  \* the caller (ColumnReaderTester)
  tester,               \* [batch_size, use_def, use_rep]
  t_def_levels,         \* the levels and values encoded into the pages
  t_rep_levels,         \*   delivered so far and not yet read back
  t_values,
  t_ok,                 \* all that was read back equals what was encoded
  t_kinds,              \* the kinds of page delivered so far
  t_failed,             \* 0, or 1 + the calls made since the first error returned
  curr_values_read, curr_levels_read,
  last_page,            \* the last result of get_next_page: its type and encoding,
                        \*   and the blocks a data page was written from
  \* a value decoder driven on its own through the Decoder<T> trait
  decoder,              \* the decoder
  bound,                \* Option: the num_values of its last set_data
  returned,             \* the values its get calls have returned since then
  last_get,             \* the last call: [op, status, buflen, count, values_left]
  emitted,              \* the values its get calls have returned since then
  encoded,              \* Option: what the data of its last set_data were written from
  \* RowField::convert_int96 called on its own
  int96,                \* Option<Int96>: the three u32 words of the value
  row                   \* Option: the result, [status, msg, millis]

reader_vars == << descr, def_level_decoder, rep_level_decoder, page_reader,
                  current_encoding, num_buffered_values, num_decoded_values, decoders >>
call_vars == << pc, batch_size, def_levels, rep_levels, values, values_read,
                levels_read, call, ret >>
tester_vars == << tester, t_def_levels, t_rep_levels, t_values, t_ok, t_kinds, t_failed,
                  curr_values_read, curr_levels_read, last_page >>
decoder_vars == << decoder, bound, returned, last_get >>
delta_vars == << emitted, encoded >>
row_vars == << int96, row >>
vars == << reader_vars, call_vars, tester_vars, decoder_vars, delta_vars, row_vars >>

\* the tester's output vectors hold num_levels * num_pages entries
Cap == MaxLevels * MaxPages

(***************************************************************************)
(* Pages, as the tests build them (make_pages, DataPageBuilderImpl).       *)
(***************************************************************************)
\* the k-th value of the column chunk, and the j-th dictionary written
\* (a boolean is 1 for true, 0 for false)
ValAt(k) ==
  IF descr.physical_type = "BOOLEAN" THEN k % 2
  ELSE IF k % 2 = 1 THEN 300 * k ELSE 0 - 300 * k
DictValues(j) ==
  IF descr.physical_type = "BOOLEAN" THEN << j % 2, (j + 1) % 2, j % 2 >>
  ELSE << 100 * j, 200 * j, 300 * j >>
\* the dictionary index of the k-th value of the column chunk
IndexAt(k) == (k - 1) % 3

\* add_levels: the RLE level block, a length prefix and the hybrid runs;
\* a constant level stream is written as one RLE run, any other bit-packed
add_levels(max_level, levels) ==
  LET w == NumRequiredBits(max_level)
      constant == \A i \in 1..Len(levels) : levels[i] = levels[1]
      payload == RleEncode(levels, w, ~constant)
  IN ToLE(Len(payload), SizeOfT) \o payload

\* the repetition levels of a page of n levels
RepLevels(max_rep, n) == [i \in 1..n |-> (i - 1) % (max_rep + 1)]

\* the number of values of a page with these definition levels
NumValuesOf(d, n, defs) ==
  IF d.max_def_level > 0
  THEN Cardinality({i \in 1..n : defs[i] = d.max_def_level})
  ELSE n

IsDictEncoding(encoding) == encoding \in {"RLE_DICTIONARY", "PLAIN_DICTIONARY"}

\* the value block of a data page holding the values k+1 .. k+m of the chunk
ValueBlock(encoding, packed, k, m) ==
  IF encoding = "PLAIN"
  THEN PlainEncode(descr.physical_type, [i \in 1..m |-> ValAt(k + i)])
  ELSE IF IsDictEncoding(encoding)
  THEN << NumRequiredBits(Len(DictValues(1)) - 1) >>
         \o RleEncode([i \in 1..m |-> IndexAt(k + i)],
                      NumRequiredBits(Len(DictValues(1)) - 1), packed)
  ELSE << >>

\* the values a data page encodes
PageValues(encoding, k, m) ==
  IF IsDictEncoding(encoding)
  THEN [i \in 1..m |-> DictValues(1)[IndexAt(k + i) + 1]]
  ELSE [i \in 1..m |-> ValAt(k + i)]

\* the level blocks of a data page: none where the column has no such levels
RepLevelBlock(d, n) ==
  IF d.max_rep_level > 0
  THEN add_levels(d.max_rep_level, RepLevels(d.max_rep_level, n)) ELSE << >>
DefLevelBlock(d, defs) ==
  IF d.max_def_level > 0 THEN add_levels(d.max_def_level, defs) ELSE << >>

DataPage(d, n, defs, encoding, packed, k) ==
  [type |-> "DataPage",
   buf |-> RepLevelBlock(d, n) \o DefLevelBlock(d, defs)
           \o ValueBlock(encoding, packed, k, NumValuesOf(d, n, defs)),
   num_values |-> n,
   encoding |-> encoding,
   def_level_encoding |-> "RLE",
   rep_level_encoding |-> "RLE"]

DictionaryPage(j, encoding) ==
  [type |-> "DictionaryPage",
   buf |-> PlainEncode(descr.physical_type, DictValues(j)),
   num_values |-> Len(DictValues(j)),
   encoding |-> encoding,
   is_sorted |-> FALSE]

DataPageV2 == [type |-> "DataPageV2"]

\* the index stream of a dictionary-encoded page is written as RLE runs under
\* RLE_DICTIONARY and as one bit-packed run under PLAIN_DICTIONARY
packed_indices(encoding) == encoding = "PLAIN_DICTIONARY"

\* the shapes of data page the page source may deliver: any number of levels
\* and any definition levels, PLAIN or dictionary-encoded; a page without
\* levels; and one page of an encoding outside both
DataPageShapes(d) ==
  UNION { { [n |-> n, defs |-> defs, encoding |-> e] :
              defs \in [1..(IF d.max_def_level > 0 THEN n ELSE 0) -> 0..d.max_def_level],
              e \in {"PLAIN", "RLE_DICTIONARY", "PLAIN_DICTIONARY"} } :
          n \in 1..MaxLevels }
  \cup { [n |-> 0, defs |-> << >>, encoding |-> "PLAIN"] }
  \cup { [n |-> 1, defs |-> [i \in 1..(IF d.max_def_level > 0 THEN 1 ELSE 0) |->
                               d.max_def_level],
          encoding |-> "DELTA_BINARY_PACKED"] }

DictPageEncodings == {"PLAIN", "PLAIN_DICTIONARY", "RLE_DICTIONARY", "RLE"}

Encodings ==
  {"PLAIN", "PLAIN_DICTIONARY", "RLE", "BIT_PACKED", "DELTA_BINARY_PACKED",
   "DELTA_LENGTH_BYTE_ARRAY", "DELTA_BYTE_ARRAY", "RLE_DICTIONARY"}

\* HashMap::contains_key on the decoder cache
contains_key(decs, encoding) == IsSome(decs[encoding])

\* what a call has decoded so far: all definition levels and values, in order,
\* the definition levels, the repetition levels (None where the step decodes
\* none), the values and the value request of its last loop step, levels_read
\* and values_read as that step began (the offsets it writes at), and whether
\* the page source had returned None before the call began
NewCall ==
  [def_levels |-> << >>, values |-> << >>,
   step_def_levels |-> << >>, step_rep_levels |-> None, step_values |-> << >>,
   step_levels_at |-> 0, step_values_at |-> 0,
   step_values_to_read |-> 0, exhausted |-> FALSE]

\* a slice of len zeroed entries
Zeros(len) == [i \in 1..len |-> 0]

(***************************************************************************)
(* Initial state: ColumnReaderImpl::new for a column of physical type T,   *)
(* and a tester for the column whose output vectors have lengths in lens.  *)
(* A level slice is passed only where the column has levels of that kind.  *)
(***************************************************************************)
\* no value has been converted
RowIdle ==
  /\ int96 = None
  /\ row = None

\* no data have been bound to the decoder driven on its own
DeltaIdle ==
  /\ emitted = << >>
  /\ encoded = None

\* no decoder is driven on its own
DecoderIdle ==
  /\ decoder = PlainDecoder_new
  /\ bound = None
  /\ returned = 0
  /\ last_get = [op |-> "none", status |-> "Ok", buflen |-> 0, count |-> 0,
                 values_left |-> 0]
  /\ DeltaIdle
  /\ RowIdle

ReaderInit(T, lens) ==
  /\ descr \in [max_def_level : 0..MaxDefLevel, max_rep_level : 0..MaxRepLevel,
                 physical_type : {T}]
  /\ def_level_decoder = None
  /\ rep_level_decoder = None
  /\ page_reader = [delivered |-> 0, depleted |-> FALSE, dict_pages |-> 0, values |-> 0]
  /\ current_encoding = None
  /\ num_buffered_values = 0
  /\ num_decoded_values = 0
  /\ decoders = [e \in Encodings |-> None]
  /\ pc = "idle"
  /\ batch_size = 0
  /\ values_read = 0
  /\ levels_read = 0
  /\ call = NewCall
  /\ ret = [status |-> "None", msg |-> "", values_read |-> 0, levels_read |-> 0]
  /\ tester \in [batch_size : 1..MaxBatch, use_def : BOOLEAN, use_rep : BOOLEAN]
  /\ tester.use_def => descr.max_def_level > 0
  /\ tester.use_rep => descr.max_rep_level > 0
  /\ def_levels \in (IF tester.use_def THEN {Some(Zeros(n)) : n \in lens} ELSE {None})
  /\ rep_levels \in (IF tester.use_rep THEN {Some(Zeros(n)) : n \in lens} ELSE {None})
  /\ values \in {Zeros(n) : n \in lens}
  /\ t_def_levels = << >>
  /\ t_rep_levels = << >>
  /\ t_values = << >>
  /\ t_ok = TRUE
  /\ t_kinds = {}
  /\ t_failed = 0
  /\ curr_values_read = 0
  /\ curr_levels_read = 0
  /\ last_page = [type |-> "Init", encoding |-> ""]

\* an INT32 column read by the tester of the tests, whose vectors hold
\* num_levels * num_pages entries
Init == ReaderInit("INT32", {Cap}) /\ DecoderIdle

(***************************************************************************)
(* The caller's loop: read_batch is called with the output vectors from    *)
(* the caller's cursors on, and the cursors advance by the counts returned.*)
(***************************************************************************)
\* Option<&mut v[n..]>
advance(o, n) == IF IsSome(o) THEN Some(start_from(Unwrap(o), n)) ELSE None

ReadBatch ==
  /\ UNCHANGED << decoder_vars, delta_vars, row_vars >>
  /\ pc = "idle"
  /\ t_failed <= MaxRetries
  /\ t_failed' = (IF t_failed > 0 THEN t_failed + 1 ELSE 0)
  /\ batch_size' = tester.batch_size
  /\ def_levels' = advance(def_levels, IF ret.status = "Ok" THEN ret.levels_read ELSE 0)
  /\ rep_levels' = advance(rep_levels, IF ret.status = "Ok" THEN ret.levels_read ELSE 0)
  /\ values' = start_from(values, IF ret.status = "Ok" THEN ret.values_read ELSE 0)
  /\ values_read' = 0
  /\ levels_read' = 0
  /\ call' = [NewCall EXCEPT !.exhausted = page_reader.depleted]
  /\ pc' = "loop"
  /\ UNCHANGED << reader_vars, tester, t_def_levels, t_rep_levels, t_values, t_ok,
                  t_kinds, curr_values_read, curr_levels_read, last_page, ret >>

\* s[0..n) = q[0..n)
prefix_eq(s, q, n) == n <= Len(s) /\ n <= Len(q) /\ SubSeq(s, 1, n) = SubSeq(q, 1, n)

\* read_batch returns Ok((values_read, levels_read)): the caller advances its
\* cursors by the counts returned; what it was handed is matched with what
\* the pages delivered so far encode (qd, qr, qv)
ReturnOkWith(qd, qr, qv) ==
  /\ pc' = "idle"
  /\ ret' = [status |-> "Ok", msg |-> "", values_read |-> values_read,
             levels_read |-> levels_read]
  /\ curr_values_read' = curr_values_read + values_read
  /\ curr_levels_read' = curr_levels_read + levels_read
  /\ t_ok' = (/\ t_ok
              /\ IsSome(def_levels) => prefix_eq(Unwrap(def_levels), qd, levels_read)
              /\ IsSome(rep_levels) => prefix_eq(Unwrap(rep_levels), qr, levels_read)
              /\ prefix_eq(values, qv, values_read))
  /\ t_def_levels' = start_from(qd, Min(levels_read, Len(qd)))
  /\ t_rep_levels' = start_from(qr, Min(levels_read, Len(qr)))
  /\ t_values' = start_from(qv, Min(values_read, Len(qv)))
  /\ UNCHANGED t_failed

ReturnOk == ReturnOkWith(t_def_levels, t_rep_levels, t_values)

\* read_batch returns Err(msg), or panics with msg
ReturnFailWith(status, msg, qd, qr, qv) ==
  /\ pc' = (IF status = "Panic" THEN "panicked" ELSE "idle")
  /\ ret' = [status |-> status, msg |-> msg, values_read |-> 0, levels_read |-> 0]
  /\ t_def_levels' = qd
  /\ t_rep_levels' = qr
  /\ t_values' = qv
  /\ t_failed' = (IF status = "Err" THEN Max(t_failed, 1) ELSE t_failed)
  /\ UNCHANGED << curr_values_read, curr_levels_read, t_ok >>

ReturnFail(status, msg) ==
  ReturnFailWith(status, msg, t_def_levels, t_rep_levels, t_values)

\* read_batch goes on
ContinueWith(next_pc, qd, qr, qv) ==
  /\ pc' = next_pc
  /\ t_def_levels' = qd
  /\ t_rep_levels' = qr
  /\ t_values' = qv
  /\ UNCHANGED << ret, curr_values_read, curr_levels_read, t_ok, t_failed >>

Continue(next_pc) == ContinueWith(next_pc, t_def_levels, t_rep_levels, t_values)

(***************************************************************************)
(* read_batch: the loop condition and the test of has_next.                *)
(***************************************************************************)
\* (variant: a new page is read only where no page has been buffered)
page_empty(buffered, decoded) == buffered = 0

\* has_next: the current page is exhausted and a new one has to be read
page_exhausted(buffered, decoded) == buffered = 0 \/ buffered = decoded

LoopHead ==
  /\ UNCHANGED << decoder_vars, delta_vars, row_vars >>
  /\ pc = "loop"
  /\ IF values_read >= batch_size
     THEN ReturnOk
     ELSE Continue(IF page_exhausted(num_buffered_values, num_decoded_values)
                   THEN "read_new_page" ELSE "body")
  /\ UNCHANGED << reader_vars, batch_size, def_levels, rep_levels, values,
                  values_read, levels_read, call, tester, t_kinds, last_page >>

(***************************************************************************)
(* read_new_page: one round of its loop for each result of get_next_page.  *)
(***************************************************************************)
\* (variant: a dictionary page is accepted whatever the cache holds, and
\* seeds the dictionary decoder anew)
configure_dictionary_reseed(decs, page) ==
  LET dictionary == Plain_set_data(PlainDecoder_new_for(descr.physical_type),
                                   page.buf, page.num_values)
      r == DictDecoder_set_dict(DictDecoder_new, dictionary)
  IN [status |-> "Ok", msg |-> "",
      decoders |-> [decs EXCEPT !["RLE_DICTIONARY"] = Some(r.dec)]]

\* (variant: a dictionary page is skipped where the cache holds a dictionary)
configure_dictionary_skip(decs, page) ==
  IF contains_key(decs, "RLE_DICTIONARY")
  THEN [status |-> "Ok", msg |-> "", decoders |-> decs]
  ELSE configure_dictionary_reseed(decs, page)

\* (variant: the dictionary decoder is cached under the page's own encoding)
configure_dictionary_unaliased(decs, page) ==
  [status |-> "Ok", msg |-> "",
   decoders |-> [decs EXCEPT ![page.encoding] =
                   configure_dictionary_reseed(decs, page).decoders["RLE_DICTIONARY"]]]

\* configure_dictionary: [status, msg, decoders]
configure_dictionary(decs, page) ==
  LET encoding == IF page.encoding = "PLAIN" \/ page.encoding = "PLAIN_DICTIONARY"
                  THEN "RLE_DICTIONARY" ELSE page.encoding
  IN IF contains_key(decs, encoding)
     THEN [status |-> "Err", msg |-> ErrDuplicateDictionary, decoders |-> decs]
     ELSE IF encoding = "RLE_DICTIONARY"
     THEN LET dictionary == Plain_set_data(PlainDecoder_new_for(descr.physical_type),
                                           page.buf, page.num_values)
              r == DictDecoder_set_dict(DictDecoder_new, dictionary)
          IN IF r.status # "Ok"
             THEN [status |-> r.status, msg |-> r.msg, decoders |-> decs]
             ELSE [status |-> "Ok", msg |-> "",
                   decoders |-> [decs EXCEPT ![encoding] = Some(r.dec)]]
     ELSE [status |-> "Err", msg |-> ErrInvalidDictEncoding, decoders |-> decs]

\* (variant: the value encoding of a data page is the cache key as it stands)
normalize_encoding_off(encoding) == encoding

\* the value encoding of a data page as the cache key: PLAIN_DICTIONARY is
\* read as RLE_DICTIONARY
normalize_encoding(encoding) ==
  IF encoding = "PLAIN_DICTIONARY" THEN "RLE_DICTIONARY" ELSE encoding

\* (variant: a missing dictionary decoder is an error returned to the caller)
missing_dictionary_err(s) == [s EXCEPT !.status = "Err", !.msg = "MissingDictionary"]

\* self.decoders.get_mut(&encoding).expect(..) where the cache has no entry
expect_dict_decoder(s) ==
  [s EXCEPT !.status = "Panic", !.msg = "Decoder for dict should have been set"]

\* the DataPage arm of read_new_page: the reader's fields afterwards and the
\* outcome ("Ok": the arm returns Ok(true))
data_page(d, decs, rep_dec, def_dec, cur_enc, page) ==
  LET rep == LevelDecoder_set_data(
               LevelDecoder_new(page.rep_level_encoding, d.max_rep_level), page.buf)
      ptr1 == IF d.max_rep_level > 0 THEN start_from(page.buf, rep.total_bytes)
              ELSE page.buf
      def == LevelDecoder_set_data(
               LevelDecoder_new(page.def_level_encoding, d.max_def_level), ptr1)
      ptr2 == IF d.max_def_level > 0 THEN start_from(ptr1, def.total_bytes) ELSE ptr1
      encoding == normalize_encoding(page.encoding)
      s == [status |-> "Ok", msg |-> "",
            num_buffered_values |-> page.num_values,
            num_decoded_values |-> 0,
            rep_level_decoder |-> IF d.max_rep_level > 0 THEN Some(rep.dec) ELSE rep_dec,
            def_level_decoder |-> IF d.max_def_level > 0 THEN Some(def.dec) ELSE def_dec,
            decoders |-> decs,
            current_encoding |-> cur_enc]
  IN IF encoding = "RLE_DICTIONARY" /\ ~contains_key(decs, encoding)
     THEN expect_dict_decoder(s)
     ELSE IF encoding # "RLE_DICTIONARY" /\ ~contains_key(decs, encoding)
             /\ encoding # "PLAIN"
     THEN [s EXCEPT !.status = "Err", !.msg = ErrUnsupportedEncoding]
     ELSE LET decs1 == IF contains_key(decs, encoding) THEN decs
                       ELSE [decs EXCEPT ![encoding] =
                                           Some(get_decoder(d.physical_type, encoding).dec)]
              sd == Decoder_set_data(Unwrap(decs1[encoding]), d.physical_type, ptr2,
                                     page.num_values)
          IN IF sd.status # "Ok"
             THEN [s EXCEPT !.status = sd.status, !.msg = sd.msg, !.decoders = decs1]
             ELSE [s EXCEPT !.decoders = [decs1 EXCEPT ![encoding] = Some(sd.dec)],
                            !.current_encoding = Some(encoding)]

\* (variant: a page source that delivers pages after it has returned None)
SourceRevives == page_reader.delivered < MaxPages

\* the page source has more data pages, or dictionary pages, to deliver
SourceHasMore == ~page_reader.depleted /\ page_reader.delivered < MaxPages
SourceHasDict == ~page_reader.depleted /\ page_reader.dict_pages < MaxDictPages

\* get_next_page returns None: read_new_page returns false, has_next returns
\* false and read_batch leaves its loop
GetNone ==
  /\ UNCHANGED << decoder_vars, delta_vars, row_vars >>
  /\ pc = "read_new_page"
  /\ page_reader' = [page_reader EXCEPT !.depleted = TRUE]
  /\ last_page' = [type |-> "None", encoding |-> ""]
  /\ ReturnOk
  /\ UNCHANGED << descr, def_level_decoder, rep_level_decoder, current_encoding,
                  num_buffered_values, num_decoded_values, decoders, batch_size,
                  def_levels, rep_levels, values, values_read, levels_read, call,
                  tester, t_kinds >>

\* the kind of a page, as the caller's record of what it has delivered
DictionaryKind(encoding) ==
  IF encoding = "RLE" THEN "BadDictionaryPage" ELSE "DictionaryPage"
DataKind(sh, decs) ==
  IF sh.n = 0 THEN "Empty"
  ELSE IF IsDictEncoding(sh.encoding) /\ ~contains_key(decs, "RLE_DICTIONARY")
  THEN "DictionaryMissing"
  ELSE sh.encoding

\* get_next_page returns a dictionary page
GetDictionaryPage(encoding) ==
  /\ UNCHANGED << decoder_vars, delta_vars, row_vars >>
  /\ pc = "read_new_page"
  /\ SourceHasDict
  /\ LET page == DictionaryPage(page_reader.dict_pages + 1, encoding)
         r == configure_dictionary(decoders, page)
     IN /\ last_page' = [type |-> page.type, encoding |-> page.encoding]
        /\ decoders' = r.decoders
        /\ IF r.status = "Ok"
           THEN Continue("read_new_page")
           ELSE ReturnFail(r.status, r.msg)
  /\ page_reader' = [page_reader EXCEPT !.dict_pages = @ + 1]
  /\ t_kinds' = t_kinds \cup {DictionaryKind(encoding)}
  /\ UNCHANGED << descr, def_level_decoder, rep_level_decoder, current_encoding,
                  num_buffered_values, num_decoded_values, batch_size,
                  def_levels, rep_levels, values, values_read, levels_read, call,
                  tester >>

\* get_next_page returns a data page
GetDataPage(sh) ==
  /\ UNCHANGED << decoder_vars, delta_vars, row_vars >>
  /\ pc = "read_new_page"
  /\ SourceHasMore
  /\ LET m == NumValuesOf(descr, sh.n, sh.defs)
         page == DataPage(descr, sh.n, sh.defs, sh.encoding,
                          packed_indices(sh.encoding), page_reader.values)
         r == data_page(descr, decoders, rep_level_decoder, def_level_decoder,
                        current_encoding, page)
         qd == t_def_levels \o sh.defs
         qr == t_rep_levels \o (IF descr.max_rep_level > 0
                                THEN RepLevels(descr.max_rep_level, sh.n) ELSE << >>)
         qv == t_values \o PageValues(sh.encoding, page_reader.values, m)
     IN /\ last_page' = [type |-> page.type, encoding |-> page.encoding,
                         num_values |-> page.num_values,
                         rep_levels |-> RepLevelBlock(descr, sh.n),
                         def_levels |-> DefLevelBlock(descr, sh.defs),
                         values |-> ValueBlock(sh.encoding, packed_indices(sh.encoding),
                                               page_reader.values, m)]
        /\ num_buffered_values' = r.num_buffered_values
        /\ num_decoded_values' = r.num_decoded_values
        /\ rep_level_decoder' = r.rep_level_decoder
        /\ def_level_decoder' = r.def_level_decoder
        /\ decoders' = r.decoders
        /\ current_encoding' = r.current_encoding
        /\ page_reader' = [page_reader EXCEPT !.delivered = @ + 1, !.values = @ + m]
        /\ IF r.status = "Ok"
           THEN IF r.num_buffered_values # 0
                THEN ContinueWith("body", qd, qr, qv)
                ELSE ReturnOkWith(qd, qr, qv)
           ELSE ReturnFailWith(r.status, r.msg, qd, qr, qv)
  /\ t_kinds' = t_kinds \cup {DataKind(sh, decoders)}
  /\ UNCHANGED << descr, batch_size, def_levels, rep_levels, values, values_read,
                  levels_read, call, tester >>

\* get_next_page returns a page of another kind: it is skipped
GetOtherPage ==
  /\ UNCHANGED << decoder_vars, delta_vars, row_vars >>
  /\ pc = "read_new_page"
  /\ SourceHasMore
  /\ last_page' = [type |-> DataPageV2.type, encoding |-> ""]
  /\ page_reader' = [page_reader EXCEPT !.delivered = @ + 1]
  /\ t_kinds' = t_kinds \cup {"DataPageV2"}
  /\ Continue("read_new_page")
  /\ UNCHANGED << descr, def_level_decoder, rep_level_decoder, current_encoding,
                  num_buffered_values, num_decoded_values, decoders, batch_size,
                  def_levels, rep_levels, values, values_read, levels_read, call,
                  tester >>

(***************************************************************************)
(* read_batch: one round of the loop body.                                 *)
(***************************************************************************)
\* slice[off .. off + Len(vals)) = vals, for a 0-based offset into arr
WriteAt(arr, off, vals) ==
  [i \in 1..Len(arr) |->
     IF i > off /\ i <= off + Len(vals) THEN vals[i - off] ELSE arr[i]]

\* (variant: every decoded level counts as a value)
count_levels(levels, max_def_level) == Len(levels)

\* the number of levels equal to max_def_level among those just decoded
count_values_to_read(levels, max_def_level) ==
  Cardinality({i \in 1..Len(levels) : levels[i] = max_def_level})

\* min(batch_size, num_buffered_values - num_decoded_values); the u32
\* subtraction wraps to a value above any batch_size when it underflows
levels_to_read(bs, buffered, decoded) ==
  IF decoded > buffered THEN bs ELSE Min(bs, buffered - decoded)

\* by how much a loop step advances num_decoded_values
decoded_in_step(num_def_levels, curr_values_read_) ==
  Max(num_def_levels, curr_values_read_)

\* (variant: the level counts of a step are not compared)
levels_unchecked(num_def_levels, num_rep_levels) == TRUE

\* assert_eq!(num_def_levels, num_rep_levels)
levels_match(num_def_levels, num_rep_levels) == num_def_levels = num_rep_levels

\* the loop-body state a step works on
StepState ==
  [status |-> "Ok", msg |-> "",
   def_level_decoder |-> def_level_decoder,
   rep_level_decoder |-> rep_level_decoder,
   decoders |-> decoders,
   num_decoded_values |-> num_decoded_values,
   values_read |-> values_read,
   levels_read |-> levels_read,
   values_to_read |-> 0,
   num_def_levels |-> 0,
   def_out |-> << >>,
   rep_out |-> None,
   values_out |-> << >>,
   def_levels |-> def_levels,
   rep_levels |-> rep_levels,
   values |-> values]

Fail(s, status, msg) == [s EXCEPT !.status = status, !.msg = msg]

\* (variant: the length of a slice is not checked)
slice_unchecked(slice, upto) == TRUE

\* assert!(slice.len() >= upto)
slice_holds(slice, upto) == Len(slice) >= upto

\* lines 147-161: the definition levels of the step and values_to_read
step_def_levels(s, next_levels_read) ==
  IF descr.max_def_level > 0 /\ IsSome(s.def_levels)
  THEN IF ~slice_holds(Unwrap(s.def_levels), next_levels_read)
       THEN Fail(s, "Panic", "def_levels.len() must be at least next_levels_read")
       ELSE IF ~IsSome(s.def_level_decoder)
       THEN Fail(s, "Panic", "def_level_decoder be set")
       ELSE LET r == LevelDecoder_get(Unwrap(s.def_level_decoder),
                                      next_levels_read - s.levels_read)
            IN [s EXCEPT !.def_level_decoder = Some(r.dec),
                         !.num_def_levels = Len(r.out),
                         !.def_out = r.out,
                         !.def_levels = Some(WriteAt(Unwrap(@), s.levels_read, r.out)),
                         !.values_to_read =
                            count_values_to_read(r.out, descr.max_def_level)]
  ELSE [s EXCEPT !.values_to_read = batch_size]

\* (variant: a mismatch of the level counts is an error returned to the caller)
level_mismatch_err(s) == Fail(s, "Err", "LevelMismatch")

\* assert_eq!(num_def_levels, num_rep_levels, ..) where the counts differ
assert_eq_levels_failed(s) ==
  Fail(s, "Panic", "Number of decoded rep / def levels did not match")

\* lines 163-170: the repetition levels of the step; levels_read advances here
step_rep_levels(s, next_levels_read) ==
  IF s.status # "Ok" THEN s
  ELSE IF descr.max_rep_level > 0 /\ IsSome(s.rep_levels)
  THEN IF ~slice_holds(Unwrap(s.rep_levels), next_levels_read)
       THEN Fail(s, "Panic", "rep_levels.len() must be at least next_levels_read")
       ELSE IF ~IsSome(s.rep_level_decoder)
       THEN Fail(s, "Panic", "rep_level_decoder be set")
       ELSE LET r == LevelDecoder_get(Unwrap(s.rep_level_decoder),
                                      next_levels_read - s.levels_read)
                s1 == [s EXCEPT !.rep_level_decoder = Some(r.dec),
                                !.rep_out = Some(r.out),
                                !.rep_levels =
                                   Some(WriteAt(Unwrap(@), s.levels_read, r.out))]
            IN IF ~levels_match(s.num_def_levels, Len(r.out))
               THEN assert_eq_levels_failed(s1)
               ELSE [s1 EXCEPT !.levels_read = @ + Len(r.out)]
  ELSE s

\* lines 172-176: the values of the step
step_values(s, overflow_checks) ==
  IF s.status # "Ok" THEN s
  ELSE IF ~slice_holds(s.values, s.values_read + s.values_to_read)
  THEN Fail(s, "Panic", "values.len() must be at least values_read + values_to_read")
  ELSE IF ~IsSome(current_encoding)
  THEN Fail(s, "Panic", "current_encoding should be set")
  ELSE IF ~contains_key(s.decoders, Unwrap(current_encoding))
  THEN Fail(s, "Panic", "decoder for encoding should be set")
  ELSE LET encoding == Unwrap(current_encoding)
           r == Decoder_get(Unwrap(s.decoders[encoding]), s.values_to_read,
                            overflow_checks)
           s1 == [s EXCEPT !.decoders = [@ EXCEPT ![encoding] = Some(r.dec)]]
       IN IF r.status # "Ok" THEN Fail(s1, r.status, r.msg)
          ELSE [s1 EXCEPT !.values_out = r.out,
                          !.values = WriteAt(@, s.values_read, r.out),
                          !.num_decoded_values =
                             @ + decoded_in_step(s.num_def_levels, Len(r.out)),
                          !.values_read = @ + Len(r.out)]

\* lines 139-176; overflow_checks says whether the build checks the u32
\* subtraction of line 144 and the usize subtractions of the value decoder
read_batch_step(overflow_checks) ==
  IF num_decoded_values > num_buffered_values /\ overflow_checks
  THEN Fail(StepState, "Panic", "attempt to subtract with overflow")
  ELSE LET next_levels_read ==
             levels_read + levels_to_read(batch_size, num_buffered_values,
                                          num_decoded_values)
       IN step_values(step_rep_levels(step_def_levels(StepState, next_levels_read),
                                      next_levels_read),
                      overflow_checks)

Body ==
  /\ UNCHANGED << decoder_vars, delta_vars, row_vars >>
  /\ pc = "body"
  /\ \E overflow_checks \in
          (IF num_decoded_values > num_buffered_values
                \/ descr.physical_type = "BOOLEAN"
           THEN BOOLEAN ELSE {FALSE}) :
       \E s \in {read_batch_step(overflow_checks)} :
          /\ def_level_decoder' = s.def_level_decoder
          /\ rep_level_decoder' = s.rep_level_decoder
          /\ decoders' = s.decoders
          /\ num_decoded_values' = s.num_decoded_values
          /\ values_read' = s.values_read
          /\ levels_read' = s.levels_read
          /\ def_levels' = s.def_levels
          /\ rep_levels' = s.rep_levels
          /\ values' = s.values
          /\ call' = [def_levels |-> call.def_levels \o s.def_out,
                      values |-> call.values \o s.values_out,
                      step_def_levels |-> s.def_out,
                      step_rep_levels |-> s.rep_out,
                      step_values |-> s.values_out,
                      step_levels_at |-> levels_read,
                      step_values_at |-> values_read,
                      step_values_to_read |-> s.values_to_read,
                      exhausted |-> call.exhausted]
          /\ IF s.status = "Ok"
             THEN Continue("loop")
             ELSE ReturnFail(s.status, s.msg)
  /\ UNCHANGED << descr, page_reader, current_encoding, num_buffered_values,
                  batch_size, tester, t_kinds, last_page >>

Next ==
  \/ ReadBatch
  \/ LoopHead
  \/ GetNone
  \/ \E encoding \in DictPageEncodings : GetDictionaryPage(encoding)
  \/ \E sh \in DataPageShapes(descr) : GetDataPage(sh)
  \/ GetOtherPage
  \/ Body

Spec == Init /\ [][Next]_vars

\* an INT32 column read in batches of MaxBatch by a caller one of whose
\* slices is shorter than the tester's vectors
ShortInit ==
  /\ ReaderInit("INT32", {ShortLen, Cap})
  /\ DecoderIdle
  /\ tester.batch_size = MaxBatch
  /\ Cardinality({x \in {"def_levels", "rep_levels", "values"} :
                    LET o == IF x = "def_levels" THEN def_levels
                             ELSE IF x = "rep_levels" THEN rep_levels
                             ELSE Some(values)
                    IN  IsSome(o) /\ Len(Unwrap(o)) = ShortLen}) = 1
ShortSpec == ShortInit /\ [][Next]_vars

\* the errors a page source fails with
PageErrors == {"underlying IO error", "invalid page header"}

\* (variant: a fetch that fails is taken for the end of the pages)
fetch_failed_as_none(e) == [status |-> "Ok", msg |-> ""]

\* self.page_reader.get_next_page()? on Err(e): read_new_page returns Err(e),
\* has_next()? returns it and so does read_batch
fetch_failed(e) == [status |-> "Err", msg |-> e]

\* get_next_page fails with e: nothing of the reader is assigned
GetPageError(e) ==
  /\ UNCHANGED << decoder_vars, delta_vars, row_vars >>
  /\ pc = "read_new_page"
  /\ ~page_reader.depleted
  /\ last_page' = [type |-> "Err", encoding |-> "", msg |-> e]
  /\ \E r \in {fetch_failed(e)} :
       IF r.status = "Err" THEN ReturnFail(r.status, r.msg) ELSE ReturnOk
  /\ UNCHANGED << reader_vars, batch_size, def_levels, rep_levels, values, values_read,
                  levels_read, call, tester, t_kinds >>

\* the reader of an INT32 column over a page source that may fail, read in
\* batches of MaxBatch
FailInit ==
  /\ ReaderInit("INT32", {Cap})
  /\ DecoderIdle
  /\ tester.batch_size = MaxBatch
FailNext ==
  \/ Next
  \/ \E e \in PageErrors : GetPageError(e)
FailSpec == FailInit /\ [][FailNext]_vars

\* C29: a step in which get_next_page fails ends read_batch with that very
\* error and leaves num_buffered_values, num_decoded_values,
\* current_encoding, the level decoders and the decoder cache as they were
C29_FetchErrorPropagates ==
  [][(pc = "read_new_page" /\ last_page'.type = "Err") =>
       /\ pc' = "idle"
       /\ ret'.status = "Err"
       /\ ret'.msg = last_page'.msg
       /\ ret'.msg \in PageErrors
       /\ UNCHANGED << num_buffered_values, num_decoded_values, current_encoding,
                       def_level_decoder, rep_level_decoder, decoders >>]_vars

\* read_batch has returned the error of a fetch that failed after a page
\* had been read and values of it decoded
C29_Witness ==
  /\ pc = "idle"
  /\ last_page.type = "Err"
  /\ ret.status = "Err"
  /\ ret.msg = "invalid page header"
  /\ num_decoded_values > 0
  /\ IsSome(current_encoding)

\* the same reader and tester for a BOOLEAN column
BoolInit == ReaderInit("BOOLEAN", {Cap}) /\ DecoderIdle
BoolSpec == BoolInit /\ [][Next]_vars

(***************************************************************************)
(* Properties of read_batch.                                               *)
(***************************************************************************)
\* the last call has returned Ok
Returned == pc = "idle" /\ ret.status = "Ok"

\* a call is in progress
InCall == pc \in {"loop", "read_new_page", "body"}

\* the caller passes a slice for every kind of level the column has
BothSupplied ==
  /\ descr.max_def_level > 0 => IsSome(def_levels)
  /\ descr.max_rep_level > 0 => IsSome(rep_levels)

\* the pages delivered so far are those of test_plain or of test_dict: PLAIN
\* data pages only, or one dictionary page and dictionary-encoded data pages
TesterPages ==
  \/ t_kinds \subseteq {"PLAIN"}
  \/ /\ t_kinds \subseteq {"DictionaryPage", "RLE_DICTIONARY", "PLAIN_DICTIONARY"}
     /\ page_reader.dict_pages <= 1

\* the pages delivered so far are a legal sequence: at most one dictionary
\* page, ahead of the dictionary-encoded data pages, and PLAIN or
\* dictionary-encoded data pages with at least one level each
LegalPages ==
  /\ t_kinds \subseteq {"DictionaryPage", "PLAIN", "RLE_DICTIONARY", "PLAIN_DICTIONARY"}
  /\ page_reader.dict_pages <= 1

\* C1: for a column whose max levels are both positive or both zero, a caller
\* that passes every slice, advanced by what was returned, over PLAIN pages or
\* over one dictionary page and dictionary-encoded pages, never sees read_batch
\* fail, is handed exactly the encoded levels and values in order, and has
\* been handed all of them once a call returns values_read = 0
C1_TesterRoundTrip ==
  ( /\ (descr.max_def_level > 0) = (descr.max_rep_level > 0)
    /\ BothSupplied
    /\ TesterPages )
  => /\ pc # "panicked"
     /\ ret.status # "Err"
     /\ t_ok
     /\ (Returned /\ ret.values_read = 0)
          => (Len(t_values) = 0 /\ Len(t_def_levels) = 0 /\ Len(t_rep_levels) = 0)

\* C2: every call that returns Ok returns values_read <= batch_size and
\* levels_read <= batch_size
C2_AtMostBatchSize ==
  Returned => (ret.values_read <= batch_size /\ ret.levels_read <= batch_size)

\* C3: with max_def_level > 0, def_levels supplied and legal pages, every call
\* that returns Ok returns values_read <= levels_read
C3_ValuesAtMostLevels ==
  (descr.max_def_level > 0 /\ IsSome(def_levels) /\ LegalPages /\ Returned)
  => ret.values_read <= ret.levels_read

\* C4: for an optional non-repeated column read with def_levels supplied and
\* rep_levels absent, levels_read is the number of definition levels the call
\* decoded and def_levels[0..levels_read) holds them in page order
C4_LevelsReadCountsDefLevels ==
  ( /\ descr.max_def_level > 0 /\ descr.max_rep_level = 0
    /\ IsSome(def_levels) /\ ~IsSome(rep_levels)
    /\ LegalPages /\ Returned )
  => /\ ret.levels_read = Len(call.def_levels)
     /\ prefix_eq(Unwrap(def_levels), call.def_levels, Len(call.def_levels))

\* C5 (as stated): for a required column (max_def_level = 0) every call that
\* returns Ok returns values_read = levels_read
C5_RequiredValuesEqualLevels ==
  (descr.max_def_level = 0 /\ Returned) => ret.values_read = ret.levels_read

\* C5 (amended): for a required column (max_def_level = 0) every call that
\* returns Ok returns levels_read = 0, whatever values_read is: no level is
\* counted where no repetition levels are decoded, and where they are decoded
\* the call fails on the comparison of the level counts
C5_RequiredLevelsReadZero ==
  (descr.max_def_level = 0 /\ Returned) => ret.levels_read = 0

C5_Witness ==
  /\ descr.max_def_level = 0
  /\ Returned
  /\ ret.values_read > 0
  /\ ret.levels_read = 0

\* C6: with max_def_level > 0 and def_levels supplied, each loop step requests
\* from the value decoder as many values as it decoded definition levels equal
\* to max_def_level; over legal pages the values read by a call are as many as
\* the definition levels equal to max_def_level it decoded, and
\* values[0..values_read) are the encoded values in input order
C6_ValuesToReadCountsMaxDef ==
  (descr.max_def_level > 0 /\ IsSome(def_levels) /\ LegalPages)
  => /\ (InCall \/ Returned)
          => /\ call.step_values_to_read =
                  Cardinality({i \in 1..Len(call.step_def_levels) :
                                 call.step_def_levels[i] = descr.max_def_level})
             /\ values_read =
                  Cardinality({i \in 1..Len(call.def_levels) :
                                 call.def_levels[i] = descr.max_def_level})
             /\ prefix_eq(values, call.values, values_read)
             /\ Len(call.values) = values_read
     /\ InCall => prefix_eq(values, t_values, values_read)
     /\ Returned => ret.values_read = values_read

C6_Witness ==
  /\ descr.max_def_level > 0 /\ IsSome(def_levels) /\ LegalPages
  /\ Returned
  /\ ret.values_read > 0
  /\ Len(call.def_levels) > ret.values_read
  /\ call.step_values_to_read < Len(call.step_def_levels)

\* C7: for a column with max_def_level > 0 and max_rep_level > 0 over legal
\* pages, a call that passes exactly one of the two level slices does not
\* fail and is handed the supplied levels and the values
C7_OneLevelSliceSucceeds ==
  ( /\ descr.max_def_level > 0 /\ descr.max_rep_level > 0
    /\ IsSome(def_levels) # IsSome(rep_levels)
    /\ LegalPages )
  => /\ pc # "panicked"
     /\ ret.status # "Err"
     /\ t_ok

(***************************************************************************)
(* Properties of the exhausted reader and of the dictionary.               *)
(***************************************************************************)
\* C8: once the page source has returned None and the current page is fully
\* consumed, no step of a read_batch call changes num_buffered_values,
\* num_decoded_values, current_encoding or the decoder cache, or writes to the
\* output slices, and every call returns Ok((0, 0))
C8_ExhaustedIdempotent ==
  [][ ( /\ page_reader.depleted
        /\ (num_buffered_values = 0 \/ num_buffered_values = num_decoded_values) )
      => /\ UNCHANGED << num_buffered_values, num_decoded_values, current_encoding,
                         decoders >>
         /\ InCall => UNCHANGED << def_levels, rep_levels, values >>
         /\ (InCall /\ pc' = "idle")
              => (ret'.status = "Ok" /\ ret'.values_read = 0 /\ ret'.levels_read = 0)
         /\ pc' # "panicked" ]_vars

C8_Witness ==
  /\ pc = "idle"
  /\ call.exhausted
  /\ ret.status = "Ok" /\ ret.values_read = 0 /\ ret.levels_read = 0
  /\ curr_values_read > 0
  /\ num_buffered_values > 0

\* a dictionary page is delivered in this step
DictionaryPageDelivered == page_reader'.dict_pages = page_reader.dict_pages + 1

C10_OneDictionary ==
  [][ /\ \A e \in Encodings :
           (contains_key(decoders', e) /\ Unwrap(decoders'[e]).kind = "DictDecoder")
             => e = "RLE_DICTIONARY"
      /\ contains_key(decoders, "RLE_DICTIONARY")
           => /\ contains_key(decoders', "RLE_DICTIONARY")
              /\ Unwrap(decoders'["RLE_DICTIONARY"]).has_dictionary
              /\ Unwrap(decoders'["RLE_DICTIONARY"]).dictionary
                   = Unwrap(decoders["RLE_DICTIONARY"]).dictionary ]_vars

C10_Witness ==
  /\ page_reader.dict_pages = 2
  /\ "PLAIN" \in t_kinds
  /\ current_encoding = Some("RLE_DICTIONARY")
  /\ contains_key(decoders, "RLE_DICTIONARY")
  /\ Unwrap(decoders["RLE_DICTIONARY"]).dictionary = DictValues(1)
  /\ pc = "loop"
  /\ values_read > 0
  /\ \A i \in 1..Len(call.values) :
       \E j \in 1..Len(DictValues(1)) : call.values[i] = DictValues(1)[j]


\* C11: between the loop steps of read_batch, and between calls,
\* 0 <= num_decoded_values <= num_buffered_values, whatever the value decoder,
\* the batch size and the padding of the value stream (here over legal pages
\* and before any call has failed)
C11_DecodedAtMostBuffered ==
  (LegalPages /\ t_failed = 0 /\ pc \in {"idle", "loop"})
  => (0 <= num_decoded_values /\ num_decoded_values <= num_buffered_values)

\* C12: once read_batch has returned an error, every later call returns
\* Ok((0, 0))
C12_ExhaustedAfterError ==
  (t_failed >= 2 /\ ~InCall)
  => (pc = "idle" /\ ret.status = "Ok" /\ ret.values_read = 0 /\ ret.levels_read = 0)

C14_EveryEncodingAccepted ==
  (pc = "idle" /\ ret.status = "Err" /\ ret.msg = ErrUnsupportedEncoding)
  => last_page.encoding \notin Encodings

\* C15: wherever the reader is about to read a page, a data page read as
\* PLAIN_DICTIONARY and the same page read as RLE_DICTIONARY leave the reader
\* in the same state with the same outcome (so every later result of
\* read_batch is the same), and so do a dictionary page read as PLAIN, as
\* PLAIN_DICTIONARY and as RLE_DICTIONARY; the cache key of a dictionary
\* decoder and the stored current_encoding are never PLAIN_DICTIONARY
C15_DictionaryEncodingsInterchangeable ==
  /\ current_encoding \in {None, Some("PLAIN"), Some("RLE_DICTIONARY")}
  /\ ~contains_key(decoders, "PLAIN_DICTIONARY")
  /\ pc = "read_new_page"
       => /\ \A sh \in DataPageShapes(descr) : \A packed \in BOOLEAN :
               sh.encoding = "RLE_DICTIONARY"
               => data_page(descr, decoders, rep_level_decoder, def_level_decoder,
                            current_encoding,
                            DataPage(descr, sh.n, sh.defs, "PLAIN_DICTIONARY", packed,
                                     page_reader.values))
                  = data_page(descr, decoders, rep_level_decoder, def_level_decoder,
                              current_encoding,
                              DataPage(descr, sh.n, sh.defs, "RLE_DICTIONARY", packed,
                                       page_reader.values))
          /\ \A e \in {"PLAIN", "PLAIN_DICTIONARY"} :
               configure_dictionary(decoders,
                                    DictionaryPage(page_reader.dict_pages + 1, e))
               = configure_dictionary(decoders,
                                      DictionaryPage(page_reader.dict_pages + 1,
                                                     "RLE_DICTIONARY"))

C15_Witness ==
  /\ t_kinds = {"DictionaryPage", "PLAIN_DICTIONARY", "RLE_DICTIONARY"}
  /\ last_page.encoding = "PLAIN_DICTIONARY"
  /\ current_encoding = Some("RLE_DICTIONARY")
  /\ Returned /\ ret.values_read > 0
  /\ t_ok

C17_StopsOnlyWhenDepleted ==
  (Returned /\ ret.values_read < batch_size) => page_reader.depleted

(***************************************************************************)
(* A value decoder driven on its own: set_data binds n values to data that *)
(* encode n or more, then get is called with buffers of any length.        *)
(***************************************************************************)
\* a DictDecoder after set_dict with the first dictionary of the column
DictDecoder_with_dict(T) ==
  DictDecoder_set_dict(DictDecoder_new,
                       Plain_set_data(PlainDecoder_new_for(T),
                                      PlainEncode(T, DictValues(1)),
                                      Len(DictValues(1)))).dec

\* the decoders of a column of physical type T
DecodersFor(T) ==
  {PlainDecoder_new_for(T), DictDecoder_with_dict(T)}
    \cup (IF T = "BOOLEAN" THEN {RleValueDecoder_new} ELSE {})

\* the bytes the encoder of the decoder's encoding writes for the first m
\* values of the column
EncodedFor(d, m, packed) ==
  IF d.kind = "DictDecoder" THEN ValueBlock("RLE_DICTIONARY", packed, 0, m)
  ELSE IF d.kind = "RleValueDecoder"
  THEN LET payload == RleEncode([i \in 1..m |-> ValAt(i)], 1, packed)
       IN ToLE(Len(payload), SizeOfT) \o payload
  ELSE ValueBlock("PLAIN", packed, 0, m)

DecoderInit ==
  /\ \E T \in {"INT32", "BOOLEAN"} : ReaderInit(T, {Cap})
  /\ descr.max_def_level = 0
  /\ descr.max_rep_level = 0
  /\ tester.batch_size = 1
  /\ decoder \in DecodersFor(descr.physical_type)
  /\ bound = None
  /\ returned = 0
  /\ last_get = [op |-> "none", status |-> "Ok", buflen |-> 0, count |-> 0,
                 values_left |-> 0]
  /\ DeltaIdle
  /\ RowIdle

\* decoder.set_data(data, n), the data encoding n + extra values
SetData(n, extra, packed) ==
  /\ ~IsSome(bound)
  /\ \E r \in {Decoder_set_data(decoder, descr.physical_type,
                                 EncodedFor(decoder, n + extra, packed), n)} :
       /\ decoder' = r.dec
       /\ last_get' = [op |-> "set_data", status |-> r.status, buflen |-> 0,
                       count |-> 0, values_left |-> 0]
  /\ bound' = Some(n)
  /\ returned' = 0
  /\ UNCHANGED << reader_vars, call_vars, tester_vars, delta_vars, row_vars >>

\* decoder.get(&mut buffer[..buflen]); last_get keeps the count returned and
\* values_left() as it was before the call
Get(buflen, overflow_checks) ==
  /\ IsSome(bound)
  /\ last_get.status = "Ok"
  /\ \E r \in {Decoder_get(decoder, buflen, overflow_checks)} :
       /\ decoder' = r.dec
       /\ last_get' = [op |-> "get", status |-> r.status, buflen |-> buflen,
                       count |-> Len(r.out),
                       values_left |-> Decoder_values_left(decoder)]
       /\ returned' = returned + (IF r.status = "Ok" THEN Len(r.out) ELSE 0)
  /\ UNCHANGED << bound, reader_vars, call_vars, tester_vars, delta_vars, row_vars >>

DecoderNext ==
  \/ \E n \in 0..MaxValues, extra \in 0..MaxExtra, packed \in BOOLEAN :
       SetData(n, extra, packed)
  \/ \E buflen \in 0..MaxBatch, overflow_checks \in BOOLEAN :
       Get(buflen, overflow_checks)

DecoderSpec == DecoderInit /\ [][DecoderNext]_vars

\* C19: a get that returns returns at most min(len(out), values_left())
\* values, and the values returned since set_data never exceed the count it
\* bound, whatever padding or further values the data hold
C19_GetWithinValuesLeft ==
  (last_get.op = "get" /\ last_get.status = "Ok")
    => /\ last_get.count <= Min(last_get.buflen, last_get.values_left)
       /\ returned <= Unwrap(bound)

\* C20: once set_data has bound N values and the gets have returned k values
\* in total, values_left() is N - k
C20_ValuesLeftIsBoundMinusReturned ==
  (IsSome(bound) /\ last_get.status = "Ok")
    => Decoder_values_left(decoder) = Unwrap(bound) - returned

(***************************************************************************)
(* The writers of the DELTA encodings (DeltaBitPackEncoder and the byte    *)
(* array encoders built on it): a header, then one block whose mini blocks *)
(* that hold a delta are each padded to the values of a mini block.        *)
(***************************************************************************)
\* bit k of an integer given by its bytes; zero beyond them
BitOf(a, k) == IF k < 8 * Len(a) THEN BitAt(a, k) ELSE 0

\* the number of bits of an unsigned integer
RECURSIVE BitLen(_)
BitLen(a) ==
  IF Len(a) = 0 THEN 0
  ELSE IF a[Len(a)] = 0 THEN BitLen(SubSeq(a, 1, Len(a) - 1))
  ELSE 8 * (Len(a) - 1) + NumRequiredBits(a[Len(a)])

\* the VLQ bytes of a u64, and of an i64 in zig-zag form
VlqBytes(a) ==
  LET n == Max(1, CeilDiv(BitLen(a), 7))
  IN [g \in 1..n |->
        SumSeq([b \in 1..7 |-> BitOf(a, 7 * (g - 1) + b - 1) * (2 ^ (b - 1))])
          + (IF g < n THEN 128 ELSE 0)]
ZigZagVlqBytes(a) ==
  VlqBytes(IF a[8] >= 128 THEN Complement(WrappingAdd(a, a)) ELSE WrappingAdd(a, a))

\* signed a < b
SignedLess(a, b) ==
  LimbLess([a EXCEPT ![Len(a)] = (@ + 128) % 256], [b EXCEPT ![Len(b)] = (@ + 128) % 256])

\* count values of w bits each, bit-packed
PackBits(vals, count, w) ==
  [j \in 1..((count * w) \div 8) |->
     SumSeq([b \in 1..8 |->
               LET p == 8 * (j - 1) + b - 1
               IN (IF (p \div w) + 1 <= Len(vals) THEN BitOf(vals[(p \div w) + 1], p % w) ELSE 0)
                    * (2 ^ (b - 1))])]

\* one block written for its deltas (at most block_size of them, none for
\* the layout of a stream without a block): the minimum delta, the bit width
\* of every mini block, and the mini blocks that hold a delta, each padded
\* to per values; [min_delta, widths, header_len, bytes]
DeltaBitPackBlock(deltas, size, per, num_mini_blocks) ==
  LET n == Len(deltas)
      min_delta == IF n = 0 THEN U64(0)
                   ELSE CHOOSE m \in {deltas[i] : i \in 1..n} :
                          \A i \in 1..n : ~SignedLess(deltas[i], m)
      packed == [i \in 1..n |->
                   ZeroExtend(Low(WrappingSub(deltas[i], min_delta), size), 8)]
      mini(k) == SubSeq(packed, per * (k - 1) + 1, Min(per * k, n))
      width(k) == IF Len(mini(k)) = 0 THEN 0
                  ELSE LET longest == CHOOSE v \in {mini(k)[i] : i \in 1..Len(mini(k))} :
                                        \A i \in 1..Len(mini(k)) : BitLen(mini(k)[i]) <= BitLen(v)
                       IN BitLen(longest)
      widths == [k \in 1..num_mini_blocks |-> width(k)]
      block_header == ZigZagVlqBytes(min_delta) \o widths
      body == Flatten([k \in 1..num_mini_blocks |->
                         IF Len(mini(k)) = 0 THEN << >> ELSE PackBits(mini(k), per, width(k))])
  IN [min_delta |-> min_delta, widths |-> widths, header_len |-> Len(block_header),
      bytes |-> block_header \o body]

\* the stream written for vals, values of size bytes each, with the given
\* block size and number of mini blocks: the bytes and the layout,
\* [bytes, header_len, block_header_len, widths, values_per_mini_block,
\* blocks], the block header length and the widths being those of the first
\* block
DeltaBitPackEncode(vals, size, block_size, num_mini_blocks) ==
  LET n == Len(vals)
      per == IF num_mini_blocks = 0 THEN 0 ELSE block_size \div num_mini_blocks
      header == VlqBytes(U64(block_size)) \o VlqBytes(U64(num_mini_blocks))
                  \o VlqBytes(U64(n))
                  \o ZigZagVlqBytes(IF n = 0 THEN U64(0) ELSE SignExtend(vals[1], 8))
      deltas == [i \in 1..(n - 1) |-> SignExtend(WrappingSub(vals[i + 1], vals[i]), 8)]
      num_blocks == IF n <= 1 THEN 0 ELSE CeilDiv(n - 1, block_size)
      blocks == [b \in 1..num_blocks |->
                   DeltaBitPackBlock(SubSeq(deltas, block_size * (b - 1) + 1,
                                            Min(block_size * b, n - 1)),
                                     size, per, num_mini_blocks)]
      first == IF num_blocks = 0 THEN DeltaBitPackBlock(<< >>, size, per, num_mini_blocks)
               ELSE blocks[1]
  IN [bytes |-> header \o Flatten([b \in 1..num_blocks |-> blocks[b].bytes]),
      header_len |-> Len(header),
      block_header_len |-> first.header_len,
      widths |-> first.widths,
      values_per_mini_block |-> per,
      blocks |-> blocks]

\* DELTA_LENGTH_BYTE_ARRAY: the lengths, then the arrays
DeltaLengthByteArrayEncode(arrays) ==
  DeltaBitPackEncode([i \in 1..Len(arrays) |-> ToLE(Len(arrays[i]), 4)], 4, 128, 4).bytes
    \o Flatten(arrays)

\* the length of the longest common prefix of two arrays
RECURSIVE CommonPrefix(_, _)
CommonPrefix(a, b) ==
  IF Len(a) = 0 \/ Len(b) = 0 \/ a[1] # b[1] THEN 0
  ELSE 1 + CommonPrefix(Tail(a), Tail(b))

\* DELTA_BYTE_ARRAY: the lengths of the prefixes shared with the array
\* before, then the suffixes
DeltaByteArrayEncode(arrays) ==
  LET prefix(i) == IF i = 1 THEN 0 ELSE CommonPrefix(arrays[i - 1], arrays[i])
  IN DeltaBitPackEncode([i \in 1..Len(arrays) |-> ToLE(prefix(i), 4)], 4, 128, 4).bytes
       \o DeltaLengthByteArrayEncode(
             [i \in 1..Len(arrays) |-> SubSeq(arrays[i], prefix(i) + 1, Len(arrays[i]))])

(***************************************************************************)
(* The decoders of get_decoder driven on their own, for INT32, INT64 and   *)
(* BYTE_ARRAY columns: get_decoder, then set_data, get and get_offset in   *)
(* any order, the same decoder rebound up to MaxBinds times.               *)
(***************************************************************************)
DeltaTypes == {"INT32", "INT64", "BYTE_ARRAY"}
DeltaKinds == {"DeltaBitPackDecoder", "DeltaLengthByteArrayDecoder", "DeltaByteArrayDecoder"}

i32_min_value == << 0, 0, 0, 128 >>
i32_max_value == << 255, 255, 255, 127 >>
i64_min_value == << 0, 0, 0, 0, 0, 0, 0, 128 >>
i64_max_value == << 255, 255, 255, 255, 255, 255, 255, 127 >>

\* the value vectors written with the writer's block size and number of
\* mini blocks (128, 4): the sample, the min / max alternations of the tests,
\* one value, none; and with (16, 2) vectors that reach a second mini block
\* and a second block
ShortInt32Lists ==
  {<< >>, << ToLE(7, 4) >>, << ToLE(29, 4), ToLE(43, 4), ToLE(89, 4) >>,
   << i32_min_value, i32_max_value, i32_min_value, i32_max_value >>}
LongInt32Lists == {[i \in 1..LongList |-> ToLE(i * i - 6 * i, 4)]}
ShortInt64Lists ==
  {<< >>, << i64_min_value, i64_max_value, i64_min_value, i64_max_value >>}
LongInt64Lists ==
  {[i \in 1..LongList |->
      IF i = 2 THEN i64_max_value ELSE IF i = 5 THEN i64_min_value
      ELSE SignExtend(ToLE(1000 * i - 3000, 4), 8)]}
ByteArrayLists ==
  {<< >>, << <<1>>, <<2, 3>>, <<4, 5, 6>>, <<7, 8>>, <<9, 0, 1, 2>> >>,
   << <<1, 2, 3, 4, 5, 6>>, <<1, 2, 3, 4, 5, 6>> >>,
   << <<1, 2>>, <<1, 2, 3>>, << >>, <<1, 9>> >>}

\* a stream with what it was written from: [values, bytes, whole, layout];
\* whole says that no byte was cut off, and the layout is that of the
\* DELTA_BINARY_PACKED stream it begins with, blocks holding the minimum
\* delta, the widths and the bytes of each of its blocks
Written(vals, e, bytes, whole) ==
  [values |-> vals, bytes |-> bytes, whole |-> whole,
   header_len |-> e.header_len,
   block_header_len |-> e.block_header_len, widths |-> e.widths,
   values_per_mini_block |-> e.values_per_mini_block,
   blocks |-> e.blocks]

\* the data a decoder of this kind for type T is bound to: streams of the
\* encoder, streams of the sample or the min / max alternation whose header
\* gives another block size and number of mini blocks, and such streams cut
\* short
SourcesFor(kind, T) ==
  IF kind = "DeltaBitPackDecoder"
  THEN LET size == IF T = "INT64" THEN 8 ELSE 4
           short == IF T = "INT64" THEN ShortInt64Lists ELSE ShortInt32Lists
           long == IF T = "INT64" THEN LongInt64Lists ELSE LongInt32Lists
           enc(v, bs, mb) == DeltaBitPackEncode(v, size, bs, mb)
       IN {Written(v, enc(v, 128, 4), enc(v, 128, 4).bytes, TRUE) : v \in short}
            \cup {Written(v, enc(v, 16, 2), enc(v, 16, 2).bytes, TRUE) : v \in long}
            \cup {Written(v, enc(v, hd[1], hd[2]), enc(v, hd[1], hd[2]).bytes, TRUE) :
                    v \in {w \in short : Len(w) > 2}, hd \in OtherHeaders}
            \cup {Written(v, enc(v, 128, 4), SubSeq(enc(v, 128, 4).bytes, 1, cut),
                           cut >= Len(enc(v, 128, 4).bytes)) :
                    v \in {w \in short : Len(w) > 2}, cut \in CutLengths}
  ELSE LET lengths(v) == DeltaBitPackEncode(
                           [i \in 1..Len(v) |->
                              ToLE(IF kind # "DeltaByteArrayDecoder" THEN Len(v[i])
                                   ELSE IF i > 1 THEN CommonPrefix(v[i - 1], v[i]) ELSE 0,
                                   4)],
                           4, 128, 4)
       IN {Written(v, lengths(v),
                   IF kind = "DeltaByteArrayDecoder" THEN DeltaByteArrayEncode(v)
                   ELSE DeltaLengthByteArrayEncode(v),
                   TRUE) : v \in ByteArrayLists}

DeltaInit ==
  /\ \E T \in DeltaTypes : ReaderInit(T, {Cap})
  /\ descr.max_def_level = 0
  /\ descr.max_rep_level = 0
  /\ tester.batch_size = 1
  /\ decoder = PlainDecoder_new
  /\ bound = None
  /\ returned = 0
  /\ last_get = [op |-> "none", status |-> "Ok", msg |-> "", encoding |-> "",
                 buflen |-> 0, count |-> 0, values_left |-> 0, failed_gets |-> 0,
                 err |-> ""]
  /\ DeltaIdle
  /\ RowIdle

\* how often set_data has been called
Binds == IF IsSome(encoded) THEN Unwrap(encoded).binds ELSE 0

\* get_decoder::<T>(descr, encoding)
GetDecoder(encoding) ==
  /\ last_get.op = "none"
  /\ \E r \in {get_decoder(descr.physical_type, encoding)} :
       /\ decoder' = r.dec
       /\ last_get' = [last_get EXCEPT !.op = "get_decoder", !.status = r.status,
                                       !.msg = r.msg, !.err = r.err,
                                       !.encoding = encoding]
  /\ UNCHANGED << bound, returned, reader_vars, call_vars, tester_vars, delta_vars, row_vars >>

\* a decoder of a DELTA encoding is there and no call has aborted
DeltaReady ==
  /\ last_get.op # "none"
  /\ last_get.status # "Panic"
  /\ decoder.kind \in DeltaKinds

\* decoder.set_data(data, num_values) with the data and the number of values
\* of a stream written
DeltaSetData(source) ==
  /\ \E r \in {DeltaDecoder_set_data(decoder, source.bytes, Len(source.values))} :
       /\ decoder' = r.dec
       /\ last_get' = [last_get EXCEPT !.op = "set_data", !.status = r.status,
                                       !.msg = r.msg, !.buflen = 0, !.count = 0,
                                       !.values_left = 0, !.failed_gets = 0]
  /\ bound' = Some(Len(source.values))
  /\ returned' = 0
  /\ emitted' = << >>
  /\ encoded' = Some([source |-> source, binds |-> Binds + 1])
  /\ UNCHANGED << reader_vars, call_vars, tester_vars, row_vars >>

\* decoder.get(&mut buffer[..buflen]); a caller gives up after MaxFailedGets
\* errors on the same data
DeltaGet(buflen) ==
  /\ DeltaReady
  /\ last_get.failed_gets < MaxFailedGets
  /\ \E r \in {DeltaDecoder_get(decoder, buflen)} :
       /\ decoder' = r.dec
       /\ last_get' = [last_get EXCEPT !.op = "get", !.status = r.status, !.msg = r.msg,
                                       !.buflen = buflen, !.count = Len(r.out),
                                       !.values_left = Decoder_values_left(decoder),
                                       !.failed_gets = IF r.status = "Err" THEN @ + 1 ELSE @]
       /\ returned' = returned + (IF r.status = "Ok" THEN Len(r.out) ELSE 0)
       /\ emitted' = (IF r.status = "Ok" THEN emitted \o r.out ELSE emitted)
  /\ UNCHANGED << bound, encoded, reader_vars, call_vars, tester_vars, row_vars >>

\* decoder.get_offset() of a DeltaBitPackDecoder; count keeps the offset
DeltaGetOffset ==
  /\ DeltaReady
  /\ decoder.kind = "DeltaBitPackDecoder"
  /\ \E r \in {DeltaBitPackDecoder_get_offset(decoder)} :
       last_get' = [last_get EXCEPT !.op = "get_offset", !.status = r.status,
                                    !.msg = r.msg, !.buflen = 0, !.count = r.offset,
                                    !.values_left = Decoder_values_left(decoder)]
  /\ UNCHANGED << decoder, bound, returned, reader_vars, call_vars, tester_vars,
                  delta_vars, row_vars >>

DeltaNext ==
  \/ \E encoding \in Encodings : GetDecoder(encoding)
  \/ /\ DeltaReady
     /\ Binds < MaxBinds
     /\ \E source \in SourcesFor(decoder.kind, descr.physical_type) : DeltaSetData(source)
  \/ \E buflen \in 0..MaxBatch : DeltaGet(buflen)
  \/ DeltaGetOffset

DeltaSpec == DeltaInit /\ [][DeltaNext]_vars

\* the stream the decoder is bound to
Source == Unwrap(encoded).source

\* a DeltaBitPackDecoder of INT32 or INT64 is bound to a whole stream whose
\* header asks for mini blocks of a multiple of 8 values
BitPackBound ==
  /\ IsSome(encoded)
  /\ decoder.kind = "DeltaBitPackDecoder"
  /\ descr.physical_type \in {"INT32", "INT64"}
  /\ Source.whole
  /\ Source.values_per_mini_block # 0
  /\ Source.values_per_mini_block % 8 = 0

\* C21: the values a DeltaBitPackDecoder has emitted from a stream are the
\* first values written to it, in order, whatever the deltas between them
\* overflow, and no call on such a stream fails
C21_DeltaBitPackReconstructs ==
  BitPackBound =>
    /\ last_get.status = "Ok"
    /\ returned = Len(emitted)
    /\ returned <= Len(Source.values)
    /\ emitted = SubSeq(Source.values, 1, returned)

\* the four values alternating between the minimum and the maximum of INT64
\* have all been emitted
C21_Witness ==
  /\ BitPackBound
  /\ descr.physical_type = "INT64"
  /\ Source.values = << i64_min_value, i64_max_value, i64_min_value, i64_max_value >>
  /\ emitted = Source.values

\* the bytes of the first n mini blocks of a block of a stream
MiniBlockBytes(source, block, n) ==
  SumSeq([j \in 1..n |-> (source.values_per_mini_block * block.widths[j]) \div 8])

\* the offset of a stream after k of its values: the end of the header while
\* no delta is taken, then the end of the last mini block a delta was taken
\* from, behind the blocks before its own and the header of its own
OffsetAfter(source, k) ==
  IF k <= 1 THEN source.header_len
  ELSE LET per_block == source.values_per_mini_block * Len(source.widths)
           b == (k - 2) \div per_block + 1
           m == ((k - 2) % per_block) \div source.values_per_mini_block + 1
       IN source.header_len
            + SumSeq([i \in 1..(b - 1) |-> Len(source.blocks[i].bytes)])
            + source.blocks[b].header_len
            + MiniBlockBytes(source, source.blocks[b], m)

\* a decoder of byte arrays of the given kind is bound to a whole stream
ByteArrayBound(kind) ==
  /\ IsSome(encoded)
  /\ decoder.kind = kind
  /\ descr.physical_type = "BYTE_ARRAY"
  /\ Source.whole

\* the i-th value by the rule: the first prefix_len bytes of the value
\* before, then the suffix
ByPrefixRule(previous, prefix_len, suffix) == SubSeq(previous, 1, prefix_len) \o suffix

\* the suffix decoder's i-th array, read from its byte region
SuffixAt(suffix_decoder, i) ==
  range(Unwrap(suffix_decoder.data),
        SumSeq([j \in 1..(i - 1) |-> suffix_decoder.lengths[j]]),
        suffix_decoder.lengths[i])

\* C23: the i-th value a DeltaByteArrayDecoder emits is the first
\* prefix_lengths[i] bytes of the value emitted before it, then the i-th
\* suffix; the value before the first is empty after every set_data, and
\* previous_value is the value emitted last, across get calls; the values
\* emitted are the values written
C23_PrefixOfPreviousThenSuffix ==
  ByteArrayBound("DeltaByteArrayDecoder") =>
    /\ last_get.status = "Ok"
    /\ returned = Len(emitted)
    /\ decoder.previous_value = (IF returned = 0 THEN << >> ELSE emitted[returned])
    /\ \A i \in 1..returned :
         emitted[i] = ByPrefixRule(IF i = 1 THEN << >> ELSE emitted[i - 1],
                                   decoder.prefix_lengths[i],
                                   SuffixAt(Unwrap(decoder.suffix_decoder), i))
    /\ emitted = SubSeq(Source.values, 1, returned)

\* a decoder bound a second time has emitted, in more than one get, values
\* that share a prefix with the value before them
C23_Witness ==
  /\ ByteArrayBound("DeltaByteArrayDecoder")
  /\ Binds = 2
  /\ Source.values = << <<1, 2>>, <<1, 2, 3>>, << >>, <<1, 9>> >>
  /\ emitted = Source.values
  /\ last_get.op = "get"
  /\ last_get.count = 1
  /\ decoder.prefix_lengths[2] = 2

\* the sum of the first k lengths
LengthsUpTo(lengths, k) == SumSeq([j \in 1..k |-> lengths[j]])

\* C24: after k values of a DeltaLengthByteArrayDecoder since set_data,
\* current_idx is k, offset is the sum of the first k lengths, values_left is
\* N - k, and the k values are the sub-ranges, length after length, of the
\* bytes that begin where the decoder of the lengths ended
C24_OffsetIsSumOfLengths ==
  ByteArrayBound("DeltaLengthByteArrayDecoder") =>
    /\ last_get.status = "Ok"
    /\ returned = Len(emitted)
    /\ decoder.lengths = [i \in 1..Len(Source.values) |-> Len(Source.values[i])]
    /\ decoder.current_idx = returned
    /\ decoder.offset = LengthsUpTo(decoder.lengths, returned)
    /\ Decoder_values_left(decoder) = Len(Source.values) - returned
    /\ Unwrap(decoder.data)
         = start_from(Source.bytes, OffsetAfter(Source, Len(Source.values)))
    /\ \A i \in 1..returned :
         emitted[i] = range(Unwrap(decoder.data), LengthsUpTo(decoder.lengths, i - 1),
                            decoder.lengths[i])

\* two of five arrays have been returned, the offset at the third
C24_Witness ==
  /\ ByteArrayBound("DeltaLengthByteArrayDecoder")
  /\ Len(Source.values) = 5
  /\ emitted = << <<1>>, <<2, 3>> >>
  /\ decoder.current_idx = 2
  /\ decoder.offset = 3
  /\ Decoder_values_left(decoder) = 3

\* C25: get_decoder gives a decoder whose encoding() is the encoding asked
\* for where that is PLAIN, RLE or one of the DELTA encodings, the error
\* "Cannot initialize this encoding through this function" for the two
\* dictionary encodings, and for any other encoding, such as BIT_PACKED, a
\* not-yet-implemented error that names the encoding
C25_GetDecoderByEncoding ==
  last_get.op = "get_decoder" =>
    IF last_get.encoding \in {"PLAIN", "RLE", "DELTA_BINARY_PACKED",
                              "DELTA_LENGTH_BYTE_ARRAY", "DELTA_BYTE_ARRAY"}
    THEN /\ last_get.status = "Ok"
         /\ Decoder_encoding(decoder) = last_get.encoding
    ELSE IF last_get.encoding \in {"RLE_DICTIONARY", "PLAIN_DICTIONARY"}
    THEN /\ last_get.status = "Err"
         /\ last_get.msg = "Cannot initialize this encoding through this function"
    ELSE /\ last_get.status = "Err"
         /\ last_get.err = "NYI"
         /\ last_get.encoding = "BIT_PACKED"
         /\ last_get.msg = "Encoding BIT_PACKED is not supported"

\* get_decoder was asked for BIT_PACKED and has returned its error
C25_Witness ==
  /\ last_get.op = "get_decoder"
  /\ last_get.encoding = "BIT_PACKED"
  /\ last_get.status = "Err"

\* set_data of a DeltaBitPackDecoder has just read a whole header whose
\* block size / number of mini blocks is no multiple of 8
NonMultipleOf8Bound ==
  /\ IsSome(encoded)
  /\ decoder.kind = "DeltaBitPackDecoder"
  /\ last_get.op = "set_data"
  /\ Source.whole
  /\ Source.values_per_mini_block % 8 # 0

\* C27 (as claimed): set_data on a header whose values per mini block are
\* no multiple of 8 returns an InvalidHeader error to the caller
C27_NonMultipleOf8Returned ==
  NonMultipleOf8Bound => last_get.status = "Err"

\* C27: set_data on a header whose values per mini block are no multiple of
\* 8 fails its assertion: the call aborts, no error is returned
C27_NonMultipleOf8Panics ==
  NonMultipleOf8Bound =>
    /\ last_get.status = "Panic"
    /\ last_get.msg = "assertion failed: self.values_per_mini_block % 8 == 0"
    /\ decoder.values_per_mini_block = Source.values_per_mini_block

\* set_data has met a header of block size 20 and 4 mini blocks
C27_Witness ==
  /\ NonMultipleOf8Bound
  /\ Source.values_per_mini_block = 5
  /\ last_get.status = "Panic"

\* the decoder is one of an encoding that does not support the column's type,
\* and set_data or get has been called on it
UnsupportedTypeCalled ==
  /\ last_get.op \in {"set_data", "get"}
  /\ \/ decoder.kind = "DeltaBitPackDecoder" /\ descr.physical_type = "BYTE_ARRAY"
     \/ /\ decoder.kind \in {"DeltaLengthByteArrayDecoder", "DeltaByteArrayDecoder"}
        /\ descr.physical_type # "BYTE_ARRAY"

\* C28 (as claimed): every decoder of an encoding that does not support the
\* type returns an error from set_data or get
C28_UnsupportedTypeReturned ==
  UnsupportedTypeCalled => last_get.status = "Err"

\* C28: the two byte array decoders return the error "... only support
\* ByteArrayType" from set_data and from get on a type other than
\* BYTE_ARRAY; a DeltaBitPackDecoder on BYTE_ARRAY returns no error: set_data
\* reads the header as for any type, and after a set_data a get with nothing
\* to emit returns 0 and a get with a value to emit panics
C28_UnsupportedTypeErrOrPanic ==
  UnsupportedTypeCalled =>
    IF decoder.kind = "DeltaLengthByteArrayDecoder"
    THEN /\ last_get.status = "Err"
         /\ last_get.msg = "DeltaLengthByteArrayDecoder only support ByteArrayType"
    ELSE IF decoder.kind = "DeltaByteArrayDecoder"
    THEN /\ last_get.status = "Err"
         /\ last_get.msg = "DeltaByteArrayDecoder only support ByteArrayType"
    ELSE /\ (last_get.op = "set_data" /\ Source.whole
              /\ Source.values_per_mini_block # 0
              /\ Source.values_per_mini_block % 8 = 0)
           => last_get.status = "Ok"
         /\ (last_get.op = "get" /\ IsSome(encoded)) =>
              IF last_get.buflen > 0 /\ last_get.values_left > 0
              THEN /\ last_get.status = "Panic"
                   /\ last_get.msg
                        = "DeltaBitPackDecoder only supports Int32Type and Int64Type"
              ELSE /\ last_get.status = "Ok"
                   /\ last_get.count = 0

\* a DeltaBitPackDecoder of a BYTE_ARRAY column, bound without error, was
\* asked for a value and has panicked
C28_Witness ==
  /\ UnsupportedTypeCalled
  /\ decoder.kind = "DeltaBitPackDecoder"
  /\ IsSome(encoded)
  /\ Source.whole
  /\ last_get.op = "get"
  /\ last_get.values_left = 3
  /\ last_get.status = "Panic"

\* C30: get and get_offset of a DeltaBitPackDecoder called before any
\* set_data abort with "Bit reader is not initialized", whatever the length
\* of the buffer; once set_data has been called neither aborts with it, and
\* after a set_data that succeeded on a whole stream both succeed
C30_InitializedBeforeUse ==
  (decoder.kind = "DeltaBitPackDecoder" /\ last_get.op \in {"get", "get_offset"}) =>
    /\ decoder.initialized = IsSome(encoded)
    /\ ~IsSome(encoded) =>
         /\ last_get.status = "Panic"
         /\ last_get.msg = "Bit reader is not initialized"
    /\ IsSome(encoded) => last_get.msg # "Bit reader is not initialized"
    /\ BitPackBound => last_get.status = "Ok"

\* get was called with an empty buffer on a decoder never bound
C30_Witness ==
  /\ decoder.kind = "DeltaBitPackDecoder"
  /\ ~IsSome(encoded)
  /\ last_get.op = "get"
  /\ last_get.buflen = 0
  /\ last_get.status = "Panic"

\* C22: get_offset of a DeltaBitPackDecoder is the end of the stream header
\* after set_data, and once a get has taken a delta of a mini block it is
\* the end of that whole mini block, however many values were asked for
C22_OffsetPastWholeMiniBlock ==
  BitPackBound =>
    /\ DeltaBitPackDecoder_get_offset(decoder).status = "Ok"
    /\ DeltaBitPackDecoder_get_offset(decoder).offset = OffsetAfter(Source, returned)
    /\ last_get.op = "get_offset" => last_get.count = OffsetAfter(Source, returned)

\* get_offset answers 34 after the three values of the sample stream, whose
\* header ends at 5
C22_Witness ==
  /\ BitPackBound
  /\ Source.values = << ToLE(29, 4), ToLE(43, 4), ToLE(89, 4) >>
  /\ Source.header_len = 5
  /\ emitted = Source.values
  /\ last_get.op = "get_offset"
  /\ last_get.count = 34

(***************************************************************************)
(* RowField::convert_int96 (src/record/api.rs): an Int96 is three u32      *)
(* words; the arithmetic is u64, which panics on overflow in a build with  *)
(* overflow checks and wraps in one without.                               *)
(***************************************************************************)
julian_to_unix_epoch_days == U64(2440588)
milli_seconds_in_a_day == U64(86400000)
nano_seconds_in_a_day == WrappingMul(milli_seconds_in_a_day, U64(1000000))

\* convert_int96: [status, msg, millis]
convert_int96(value, overflow_checks) ==
  LET day == ZeroExtend(value[3], 8)
      days_since_epoch == WrappingSub(day, julian_to_unix_epoch_days)
      nanoseconds == value[1] \o value[2]
      product == WrappingMul(days_since_epoch, nano_seconds_in_a_day)
      nanos == WrappingAdd(product, nanoseconds)
      millis == LimbDiv(nanos, 1000000)
  IN IF overflow_checks /\ SubOverflows(day, julian_to_unix_epoch_days)
     THEN [status |-> "Panic", msg |-> "attempt to subtract with overflow",
           millis |-> U64(0)]
     ELSE IF overflow_checks /\ MulOverflows(days_since_epoch, nano_seconds_in_a_day)
     THEN [status |-> "Panic", msg |-> "attempt to multiply with overflow",
           millis |-> U64(0)]
     ELSE IF overflow_checks /\ AddOverflows(product, nanoseconds)
     THEN [status |-> "Panic", msg |-> "attempt to add with overflow",
           millis |-> U64(0)]
     ELSE [status |-> "Ok", msg |-> "", millis |-> millis]

\* the u32 words the values converted are drawn from: 0, 13, 999999, 1000000,
\* 4165425152 and 2^32 - 1 for the nanoseconds, and for the Julian day 0,
\* the day before the Unix epoch, the epoch (2440588), 2454923, the last day
\* whose nanoseconds fit a u64 (2654091), the day after, and 2^32 - 1
NanoWords ==
  {ToLE(0, 4), ToLE(13, 4), ToLE(999999, 4), ToLE(1000000, 4),
   << 0, 88, 71, 248 >>, << 255, 255, 255, 255 >>}
DayWords ==
  {ToLE(0, 4), ToLE(2440587, 4), ToLE(2440588, 4), ToLE(2454923, 4),
   ToLE(2654091, 4), ToLE(2654092, 4), << 255, 255, 255, 255 >>}

\* a reader that is not used
ReaderUnused ==
  /\ ReaderInit("INT32", {Cap})
  /\ descr.max_def_level = 0
  /\ descr.max_rep_level = 0
  /\ tester.batch_size = 1

Int96Init ==
  /\ ReaderUnused
  /\ decoder = PlainDecoder_new
  /\ bound = None
  /\ returned = 0
  /\ last_get = [op |-> "none", status |-> "Ok", buflen |-> 0, count |-> 0,
                 values_left |-> 0]
  /\ DeltaIdle
  /\ int96 \in {Some(<< w0, w1, w2 >>) : w0 \in NanoWords, w1 \in NanoWords, w2 \in DayWords}
  /\ row = None

\* RowField::convert_int96(INT96, NONE, value)
ConvertInt96(overflow_checks) ==
  /\ row = None
  /\ row' = Some(convert_int96(Unwrap(int96), overflow_checks))
  /\ UNCHANGED << int96, reader_vars, call_vars, tester_vars, decoder_vars, delta_vars >>

Int96Next == \E overflow_checks \in BOOLEAN : ConvertInt96(overflow_checks)

Int96Spec == Int96Init /\ [][Int96Next]_vars

\* (julianDay - 2440588) * 86400000 + ((word1 << 32) | word0) / 1000000 in
\* integers, for a day not before the epoch (it is below 2^64 then)
RuleMillis(value) ==
  WrappingAdd(WrappingMul(WrappingSub(ZeroExtend(value[3], 8), julian_to_unix_epoch_days),
                          milli_seconds_in_a_day),
              LimbDiv(value[1] \o value[2], 1000000))

\* C26: convert_int96 maps every triple (word0, word1, julianDay) to
\* Timestamp(ms), ms = (julianDay - 2440588) * 86400000
\*                     + ((word1 << 32) | word0) / 1000000
C26_Int96MillisByRule ==
  IsSome(row)
    => /\ Unwrap(row).status = "Ok"
       /\ ~LimbLess(Unwrap(int96)[3], Low(julian_to_unix_epoch_days, 4))
       /\ Unwrap(row).millis = RuleMillis(Unwrap(int96))

(***************************************************************************)
(* Properties of the writes to the caller's slices.                       *)
(***************************************************************************)
\* the entries the last loop step wrote lie within the slices
WritesWithinSlices ==
  /\ (IsSome(def_levels) /\ Len(call.step_def_levels) > 0)
       => call.step_levels_at + Len(call.step_def_levels) <= Len(Unwrap(def_levels))
  /\ (IsSome(rep_levels) /\ IsSome(call.step_rep_levels))
       => call.step_levels_at + Len(Unwrap(call.step_rep_levels))
            <= Len(Unwrap(rep_levels))
  /\ call.step_values_at + Len(call.step_values) <= Len(values)

\* the last loop step aborted on the length assertion of this slice
AbortedOn(slice) ==
  /\ pc = "panicked"
  /\ ret.msg = (IF slice = "def_levels"
                THEN "def_levels.len() must be at least next_levels_read"
                ELSE IF slice = "rep_levels"
                THEN "rep_levels.len() must be at least next_levels_read"
                ELSE "values.len() must be at least values_read + values_to_read")

\* C18 (as stated): read_batch writes only within the slices, and a step that
\* finds a slice too short aborts on its assertion before any write of that
\* step
C18_AbortsBeforeAnyWrite ==
  /\ WritesWithinSlices
  /\ (AbortedOn("def_levels") \/ AbortedOn("rep_levels") \/ AbortedOn("values"))
       => /\ Len(call.step_def_levels) = 0
          /\ ~IsSome(call.step_rep_levels)
          /\ Len(call.step_values) = 0

\* C18 (amended): read_batch writes only within the slices, and a step that
\* finds a slice too short aborts on its assertion before any write to that
\* slice and to the slices checked after it (def_levels, then rep_levels,
\* then values); the level slices checked before it have been written
C18_AbortsBeforeWriteToSlice ==
  /\ WritesWithinSlices
  /\ AbortedOn("def_levels")
       => /\ Len(call.step_def_levels) = 0
          /\ ~IsSome(call.step_rep_levels)
          /\ Len(call.step_values) = 0
  /\ AbortedOn("rep_levels")
       => /\ ~IsSome(call.step_rep_levels)
          /\ Len(call.step_values) = 0
  /\ AbortedOn("values") => Len(call.step_values) = 0

C18_Witness ==
  /\ AbortedOn("values")
  /\ Len(call.step_def_levels) > 0
  /\ Unwrap(def_levels)[call.step_levels_at + 1] = descr.max_def_level
  /\ Len(values) < call.step_values_at + call.step_values_to_read

(***************************************************************************)
(* Properties of has_next and read_new_page.                               *)
(***************************************************************************)
\* C31: get_next_page is called only when num_buffered_values = 0 or
\* num_decoded_values = num_buffered_values; a loop step that begins with
\* num_decoded_values = num_buffered_values goes to read_new_page with
\* nothing decoded, and levels and values are decoded only from a page that
\* is not exhausted
C31_FetchOnlyWhenExhausted ==
  [][/\ pc = "read_new_page" =>
          (num_buffered_values = 0 \/ num_decoded_values = num_buffered_values)
     /\ (pc = "loop" /\ values_read < batch_size
            /\ num_decoded_values = num_buffered_values) =>
          /\ pc' = "read_new_page"
          /\ UNCHANGED << reader_vars, def_levels, rep_levels, values, values_read,
                          levels_read, call >>
     /\ pc = "body" =>
          (num_buffered_values # 0 /\ num_decoded_values # num_buffered_values)]_vars

\* in the middle of a batch the page has been decoded to its end and the
\* call is about to ask the page source for the next one
C31_Witness ==
  /\ pc = "read_new_page"
  /\ num_buffered_values > 0
  /\ num_decoded_values = num_buffered_values
  /\ values_read > 0
  /\ values_read < batch_size

\* a step in which get_next_page returns a data page, and one in which
\* read_new_page returns true for it
DataPageDelivered == pc = "read_new_page" /\ last_page'.type = "DataPage"
DataPageAccepted ==
  /\ DataPageDelivered
  /\ pc' = "body" \/ (pc' = "idle" /\ ret'.status = "Ok")

\* C32: when read_new_page returns true for a data page of n values and
\* value encoding e, num_buffered_values is n, num_decoded_values is 0,
\* current_encoding is e with PLAIN_DICTIONARY read as RLE_DICTIONARY, and the
\* decoder cached under that key is bound to the value block of this page,
\* at its start, with values_left() = n; a call ends without a page only
\* where the page source has returned None
C32_DataPageBound ==
  [][/\ DataPageAccepted =>
          LET e == IF last_page'.encoding = "PLAIN_DICTIONARY"
                   THEN "RLE_DICTIONARY" ELSE last_page'.encoding
          IN /\ num_buffered_values' = last_page'.num_values
             /\ num_decoded_values' = 0
             /\ current_encoding' = Some(e)
             /\ contains_key(decoders', e)
             /\ Decoder_values_left(Unwrap(decoders'[e])) = last_page'.num_values
             /\ IF e = "PLAIN"
                THEN /\ Unwrap(decoders'[e]).data = Some(last_page'.values)
                     /\ Unwrap(decoders'[e]).start = 0
                ELSE /\ e = "RLE_DICTIONARY"
                     /\ Unwrap(decoders'[e]).rle_decoder =
                          Some([bit_width |-> last_page'.values[1],
                                data |-> Tail(last_page'.values), pos |-> 0,
                                rle_left |-> 0, bit_packed_left |-> 0,
                                current_value |-> 0])
     /\ (pc = "read_new_page" /\ pc' = "idle" /\ ret'.status = "Ok") =>
          \/ last_page'.type = "None"
          \/ DataPageAccepted /\ num_buffered_values' = 0]_vars

\* the second of two PLAIN pages has been bound to the decoder the first one
\* created, after values of the first were read
C32_Witness ==
  /\ pc = "body"
  /\ last_page.type = "DataPage"
  /\ last_page.encoding = "PLAIN"
  /\ page_reader.delivered = 2
  /\ t_kinds = {"PLAIN"}
  /\ values_read > 0
  /\ num_decoded_values = 0
  /\ Unwrap(decoders["PLAIN"]).start = 0
  /\ Len(last_page.values) > 0

\* a step in which get_next_page returns a dictionary page or a page of
\* another kind
NonDataPageDelivered ==
  pc = "read_new_page" /\ last_page'.type \in {"DictionaryPage", "DataPageV2"}

\* such a page leaves the page counters, current_encoding and the level
\* decoders alone, and every cache entry but that of RLE_DICTIONARY
NonDataPageFrame ==
  /\ UNCHANGED << num_buffered_values, num_decoded_values, current_encoding,
                  def_level_decoder, rep_level_decoder >>
  /\ \A e \in Encodings \ {"RLE_DICTIONARY"} : decoders'[e] = decoders[e]
  /\ last_page'.type = "DataPageV2" => decoders' = decoders

\* no data page has been delivered
OnlyNonDataPages == t_kinds \subseteq {"DictionaryPage", "BadDictionaryPage", "DataPageV2"}

\* C33 (as stated): a dictionary page or a page of another kind changes
\* nothing but the RLE_DICTIONARY cache entry, read_new_page goes on to the
\* next page, and a read_batch that has met only such pages returns (0, 0)
C33_NonDataPagesSkipped ==
  [][/\ NonDataPageDelivered => (NonDataPageFrame /\ pc' = "read_new_page")
     /\ (pc' = "idle" /\ ret'.status # "None" /\ OnlyNonDataPages') =>
          (ret'.status = "Ok" /\ ret'.values_read = 0 /\ ret'.levels_read = 0)]_vars

\* C33 (amended): a dictionary page or a page of another kind changes nothing
\* but the RLE_DICTIONARY cache entry; read_new_page goes on to the next page
\* after a page of another kind and after a dictionary page it accepts (the
\* first one, of encoding PLAIN, PLAIN_DICTIONARY or RLE_DICTIONARY), which
\* adds that entry; any other dictionary page changes nothing and ends
\* read_batch with an error; a read_batch that has met only such pages and
\* returns Ok returns (0, 0)
C33_NonDataPagesChangeNoPage ==
  [][/\ NonDataPageDelivered =>
          /\ NonDataPageFrame
          /\ last_page'.type = "DataPageV2" => pc' = "read_new_page"
          /\ last_page'.type = "DictionaryPage" =>
               IF /\ ~contains_key(decoders, "RLE_DICTIONARY")
                  /\ last_page'.encoding \in {"PLAIN", "PLAIN_DICTIONARY", "RLE_DICTIONARY"}
               THEN /\ contains_key(decoders', "RLE_DICTIONARY")
                    /\ pc' = "read_new_page"
               ELSE /\ decoders' = decoders
                    /\ pc' = "idle"
                    /\ ret'.status = "Err"
     /\ (pc' = "idle" /\ ret'.status = "Ok" /\ OnlyNonDataPages') =>
          (ret'.values_read = 0 /\ ret'.levels_read = 0)]_vars

\* a page source that held a dictionary page and pages of other kinds only
\* has returned None, and read_batch has returned (0, 0)
C33_Witness ==
  /\ pc = "idle"
  /\ ret.status = "Ok"
  /\ ret.values_read = 0 /\ ret.levels_read = 0
  /\ page_reader.depleted
  /\ t_kinds = {"DictionaryPage", "DataPageV2"}
  /\ contains_key(decoders, "RLE_DICTIONARY")
  /\ num_buffered_values = 0
  /\ current_encoding = None

\* the payload of a level block: what follows its length prefix
LevelPayload(block) == start_from(block, SizeOfT)

\* a level decoder newly created for a page and bound to payload
FreshLevelDecoder(max_level, payload) ==
  Some([encoding |-> "RLE",
        rle |-> [bit_width |-> NumRequiredBits(max_level), data |-> payload, pos |-> 0,
                 rle_left |-> 0, bit_packed_left |-> 0, current_value |-> 0]])

\* C34: a data page is carved into the repetition level block (where
\* max_rep_level > 0), the definition level block (where max_def_level > 0)
\* and the value block, in that order: each level decoder is a new one bound
\* to the payload of its block, the value decoder is bound to the bytes left
\* after the level blocks, and where a max level is 0 no decoder of that
\* kind is ever created
C34_PayloadCarvedInOrder ==
  [][/\ DataPageDelivered =>
          /\ rep_level_decoder' =
               (IF descr.max_rep_level > 0
                THEN FreshLevelDecoder(descr.max_rep_level,
                                       LevelPayload(last_page'.rep_levels))
                ELSE None)
          /\ def_level_decoder' =
               (IF descr.max_def_level > 0
                THEN FreshLevelDecoder(descr.max_def_level,
                                       LevelPayload(last_page'.def_levels))
                ELSE None)
          /\ descr.max_rep_level = 0 => last_page'.rep_levels = << >>
          /\ descr.max_def_level = 0 => last_page'.def_levels = << >>
          /\ DataPageAccepted =>
               LET d == Unwrap(decoders'[Unwrap(current_encoding')])
               IN IF d.kind = "DictDecoder"
                  THEN << Unwrap(d.rle_decoder).bit_width >> \o Unwrap(d.rle_decoder).data
                         = last_page'.values
                  ELSE Unwrap(d.data) = last_page'.values
     /\ descr.max_rep_level = 0 => rep_level_decoder' = None
     /\ descr.max_def_level = 0 => def_level_decoder' = None]_vars

\* a page with both kinds of level and values has been carved
C34_Witness ==
  /\ pc = "body"
  /\ last_page.type = "DataPage"
  /\ descr.max_rep_level > 0
  /\ descr.max_def_level > 0
  /\ Len(last_page.rep_levels) > SizeOfT
  /\ Len(last_page.def_levels) > SizeOfT
  /\ Len(last_page.values) > 0
  /\ num_decoded_values = 0
  /\ IsSome(rep_level_decoder)
  /\ IsSome(def_level_decoder)
  /\ Unwrap(def_level_decoder).rle.data = LevelPayload(last_page.def_levels)
  /\ Unwrap(decoders["PLAIN"]).data = Some(last_page.values)

\* C35: every read_batch call terminates, because each iteration of its
\* loop either leaves the loop or strictly increases num_decoded_values or
\* values_read, also where the value decoder supplies fewer values than the
\* page header declares
C35_EveryIterationAdvances ==
  [][(pc = "body" /\ pc' = "loop") =>
       (num_decoded_values' > num_decoded_values \/ values_read' > values_read)]_vars

\* the slices of the call are batch_size entries long or longer
SlicesHoldBatch ==
  /\ Len(values) >= batch_size
  /\ IsSome(def_levels) => Len(Unwrap(def_levels)) >= batch_size
  /\ IsSome(rep_levels) => Len(Unwrap(rep_levels)) >= batch_size

\* the call has failed one of the slice-length assertions of read_batch
SliceAssertionFailed ==
  /\ pc = "panicked"
  /\ ret.msg \in {"def_levels.len() must be at least next_levels_read",
                  "rep_levels.len() must be at least next_levels_read",
                  "values.len() must be at least values_read + values_to_read"}

\* C36: a read_batch over a legal sequence of pages whose slices are
\* batch_size entries long or longer fails none of its slice-length
\* assertions
C36_BatchSizeSlicesSuffice ==
  (LegalPages /\ SlicesHoldBatch) => ~SliceAssertionFailed

(***************************************************************************)
(* The blocks and mini blocks of a DELTA_BINARY_PACKED stream.             *)
(***************************************************************************)
\* the deltas get has consumed, and the deltas of a block as the header gives
\* them
DeltasTaken == returned - 1
DeltasPerBlock == Source.values_per_mini_block * Len(Source.widths)

\* the block (from 1) and the mini block in it (from 0) of the delta
\* consumed last
BlockOfLast == ((DeltasTaken - 1) \div DeltasPerBlock) + 1
MiniBlockOfLast == ((DeltasTaken - 1) % DeltasPerBlock) \div Source.values_per_mini_block

\* the bytes of the stream up to the end of the mini block of the delta
\* consumed last
BytesUpToLast ==
  Source.header_len
    + SumSeq([b \in 1..(BlockOfLast - 1) |-> Len(Source.blocks[b].bytes)])
    + Source.blocks[BlockOfLast].header_len
    + SumSeq([m \in 1..(MiniBlockOfLast + 1) |->
                (Source.values_per_mini_block * Source.blocks[BlockOfLast].widths[m])
                  \div 8])

\* C37: once a delta of a stream has been consumed, mini_block_idx is below
\* the number of bit widths of the block and the delta came from a mini block
\* with 0 < values_current_mini_block <= values_per_mini_block; the bit
\* width is the one of the mini block of the delta within its block, and the
\* header of a block (the minimum delta and the widths) has been read when
\* the first of its deltas was asked for and not before: none before the
\* first delta, the next one not when the last mini block of a block is used
\* up but when one more value is asked for, with mini_block_idx back at 0
C37_MiniBlocksInOrder ==
  BitPackBound =>
    IF DeltasTaken <= 0
    THEN /\ decoder.mini_block_idx = 0
         /\ decoder.delta_bit_widths = << >>
         /\ decoder.values_current_mini_block = 0
         /\ BitReader_get_byte_offset(decoder.bit_reader) = Source.header_len
    ELSE /\ decoder.mini_block_idx < Len(decoder.delta_bit_widths)
         /\ decoder.mini_block_idx = MiniBlockOfLast
         /\ decoder.values_current_mini_block + 1 > 0
         /\ decoder.values_current_mini_block + 1 <= decoder.values_per_mini_block
         /\ decoder.values_current_mini_block
              = Source.values_per_mini_block - 1
                  - ((DeltasTaken - 1) % Source.values_per_mini_block)
         /\ decoder.delta_bit_widths = Source.blocks[BlockOfLast].widths
         /\ decoder.min_delta = Source.blocks[BlockOfLast].min_delta
         /\ decoder.delta_bit_width = decoder.delta_bit_widths[decoder.mini_block_idx + 1]
         /\ BitReader_get_byte_offset(decoder.bit_reader) = BytesUpToLast

\* every value of a stream of two blocks, the first of two mini blocks, has
\* been read: the second block's header has replaced the first's
C37_Witness ==
  /\ BitPackBound
  /\ Len(Source.blocks) = 2
  /\ Len(Source.widths) = 2
  /\ returned = Len(Source.values)
  /\ returned = LongList
  /\ decoder.mini_block_idx = 0
  /\ decoder.min_delta = Source.blocks[2].min_delta
  /\ Source.blocks[2].min_delta # Source.blocks[1].min_delta
  /\ Source.blocks[1].widths[1] # Source.blocks[1].widths[2]

(***************************************************************************)
(* A PlainDecoder<T> driven on its own: get_decoder(descr, PLAIN), then    *)
(* set_data and get in any order, the same decoder rebound up to MaxBinds  *)
(* times, to buffers that hold the values bound, more, or less.            *)
(***************************************************************************)
PlainTypes == {"INT32", "INT96", "BYTE_ARRAY", "FIXED_LEN_BYTE_ARRAY"}

\* the value vectors of the tests (the byte arrays shortened), one value,
\* none
PlainValueLists(T) ==
  IF T = "INT32" THEN {<< >>, << -7 >>, << 42, 18, 52 >>}
  ELSE IF T = "INT96"
  THEN {<< >>,
        << << ToLE(11, 4), ToLE(22, 4), ToLE(33, 4) >>,
           << ToLE(44, 4), ToLE(55, 4), ToLE(66, 4) >>,
           << ToLE(10, 4), ToLE(20, 4), ToLE(30, 4) >> >>}
  ELSE IF T = "BYTE_ARRAY"
  THEN {<< >>, << << 104, 105 >> >>, << << 104, 101, 108 >>, << >>, << 112, 97 >> >>}
  ELSE {<< >>, << << 98, 105, 114, 100 >>, << 99, 111, 109, 101 >>,
                  << 102, 108, 111, 119 >> >>}

\* how many bytes a buffer may lack at its end
PlainCuts == {1, 5}

\* the data a PlainDecoder<T> is bound to, with what they were written
\* from: [values, bytes, num_values]; the values written and their number,
\* the values written and one less bound, or all bound and the buffer cut
\* short
PlainSources(T) ==
  LET all == PlainValueLists(T)
      bytes(v) == PlainEncode(T, v)
  IN {[values |-> v, bytes |-> bytes(v), num_values |-> Len(v)] : v \in all}
       \cup {[values |-> v, bytes |-> bytes(v), num_values |-> Len(v) - 1] :
               v \in {w \in all : Len(w) > 0}}
       \cup UNION {{[values |-> v, bytes |-> SubSeq(bytes(v), 1, Len(bytes(v)) - cut),
                     num_values |-> Len(v)] :
                      v \in {w \in all : Len(bytes(w)) >= cut}} : cut \in PlainCuts}

PlainInit ==
  /\ \E T \in PlainTypes : ReaderInit(T, {Cap})
  /\ descr.max_def_level = 0
  /\ descr.max_rep_level = 0
  /\ tester.batch_size = 1
  /\ decoder = get_decoder(descr.physical_type, "PLAIN").dec
  /\ bound = None
  /\ returned = 0
  /\ last_get = [op |-> "none", status |-> "Ok", msg |-> "", buflen |-> 0, count |-> 0,
                 values_left |-> 0, start |-> 0, failed_gets |-> 0]
  /\ DeltaIdle
  /\ RowIdle

\* decoder.set_data(data, num_values); last_get keeps start and
\* values_left() as they were before the call
PlainSetData(source) ==
  /\ last_get.status # "Panic"
  /\ Binds < MaxBinds
  /\ \E r \in {Decoder_set_data(decoder, descr.physical_type, source.bytes,
                                 source.num_values)} :
       /\ decoder' = r.dec
       /\ last_get' = [op |-> "set_data", status |-> r.status, msg |-> r.msg,
                       buflen |-> 0, count |-> 0,
                       values_left |-> Decoder_values_left(decoder),
                       start |-> decoder.start, failed_gets |-> 0]
  /\ bound' = Some(source.num_values)
  /\ returned' = 0
  /\ emitted' = << >>
  /\ encoded' = Some([source |-> source, binds |-> Binds + 1,
                       restarted_at |-> decoder.start])
  /\ UNCHANGED << reader_vars, call_vars, tester_vars, row_vars >>

\* decoder.get(&mut buffer[..buflen]); last_get keeps start and
\* values_left() as they were before the call; a caller gives up after
\* MaxFailedGets errors on the same data
PlainGet(buflen) ==
  /\ IsSome(bound)
  /\ last_get.status # "Panic"
  /\ last_get.failed_gets < MaxFailedGets
  /\ \E r \in {Decoder_get(decoder, buflen, TRUE)} :
       /\ decoder' = r.dec
       /\ last_get' = [op |-> "get", status |-> r.status, msg |-> r.msg,
                       buflen |-> buflen,
                       count |-> IF r.status = "Ok" THEN Len(r.out) ELSE 0,
                       values_left |-> Decoder_values_left(decoder),
                       start |-> decoder.start,
                       failed_gets |-> IF r.status = "Err" THEN last_get.failed_gets + 1
                                       ELSE last_get.failed_gets]
       /\ returned' = returned + (IF r.status = "Ok" THEN Len(r.out) ELSE 0)
       /\ emitted' = (IF r.status = "Ok" THEN emitted \o r.out ELSE emitted)
  /\ UNCHANGED << bound, encoded, reader_vars, call_vars, tester_vars, row_vars >>

PlainNext ==
  \/ \E source \in PlainSources(descr.physical_type) : PlainSetData(source)
  \/ \E buflen \in 0..MaxBatch : PlainGet(buflen)

PlainSpec == PlainInit /\ [][PlainNext]_vars

\* the types whose values all have one width, known without the column
FixedWidthTypes == {"INT32", "INT96"}

\* one get of length N on a decoder newly bound to the data and the number
\* of values the decoder is bound to
OneGet ==
  Decoder_get(Decoder_set_data(get_decoder(descr.physical_type, "PLAIN").dec,
                               descr.physical_type, Source.bytes, Source.num_values).dec,
              Source.num_values, TRUE)

\* C38: a PlainDecoder of a fixed-width type returns the values in wire
\* order whatever the lengths of the buffers of its get calls: where one get
\* of length N after set_data(buf, N) succeeds it returns the first N values
\* written to buf, no get of any length fails, every get returns
\* min(buffer length, values_left()) values, the values returned so far are a
\* prefix of those of the one get, all N of them once N values are returned,
\* and values_left() is N less the values returned, 0 at the end; and every
\* set_data leaves the decoder at offset 0 of the new buffer with N values
\* left, whatever it had decoded before
C38_PlainChunkInvariant ==
  (IsSome(encoded) /\ descr.physical_type \in FixedWidthTypes) =>
    /\ last_get.op = "set_data" =>
         /\ decoder.start = 0
         /\ decoder.data = Some(Source.bytes)
         /\ Decoder_values_left(decoder) = Source.num_values
    /\ OneGet.status = "Ok" =>
         /\ OneGet.out = SubSeq(Source.values, 1, Source.num_values)
         /\ last_get.status = "Ok"
         /\ last_get.op = "get" =>
              last_get.count = Min(last_get.buflen, last_get.values_left)
         /\ returned <= Source.num_values
         /\ emitted = SubSeq(OneGet.out, 1, returned)
         /\ Decoder_values_left(decoder) = Source.num_values - returned
         /\ decoder.start = Len(PlainEncode(descr.physical_type, emitted))

\* a decoder that had decoded from another buffer is rebound, and three
\* values are returned by more than one get
C38_Witness ==
  /\ IsSome(encoded) /\ descr.physical_type \in FixedWidthTypes
  /\ Binds = 2
  /\ Unwrap(encoded).restarted_at > 0
  /\ OneGet.status = "Ok"
  /\ Source.num_values = 3
  /\ returned = 3
  /\ last_get.op = "get" /\ last_get.count = 1
  /\ Decoder_values_left(decoder) = 0

\* C39 (as stated): a get of a PlainDecoder that fails with "Not enough
\* bytes to decode" leaves start and values_left() as they were before the
\* call, whatever the physical type
C39_FailedGetChangesNothing ==
  (last_get.op = "get" /\ last_get.status = "Err" /\ last_get.msg = ErrEof) =>
    /\ decoder.start = last_get.start
    /\ Decoder_values_left(decoder) = last_get.values_left

====
